---- MODULE Spec2Model ----
(***************************************************************************)
(* Model of the Raumkernel add-on (ha-raumkernel-addon/rootfs/app):        *)
(* the room registry, the zone mapping, the renderer resolution and the    *)
(* command methods of RaumkernelHelper, with the event listeners and the   *)
(* WebSocket message handler of index.js, and of IntegrationManager.       *)
(*                                                                         *)
(* The node-raumkernel library is the environment.  It owns                *)
(*   mediaRenderers         deviceManager.mediaRenderers (a Map, kept as a *)
(*                          sequence in insertion order)                   *)
(*   mediaRenderersVirtual  deviceManager.mediaRenderersVirtual            *)
(*   zoneConfig             the zone configuration that                    *)
(*                          zoneManager.getZoneUDNFromRoomUDN answers from *)
(*   managersUp             whether raumkernel.managerDisposer exists      *)
(* and changes them between the turns of the add-on.                       *)
(*                                                                         *)
(* The specifications share the definitions:                               *)
(*   Spec      the listeners from the constructor on, with every zone      *)
(*             list an event can carry                                     *)
(*   SpecCmd   play, pause and setVolume on the add-on when it is up,      *)
(*             with the zones and virtual renderers of the library         *)
(*             changing under them                                         *)
(*   SpecLoad  loadUri, loadContainer and loadSingle likewise              *)
(*             (SpecLoadFair: with timers that fire and calls that return) *)
(*   SpecTransport  stop, next, prev, setMute, joinGroup and leaveGroup    *)
(*             likewise, with the outcomes of the calls they make          *)
(*   SpecZoneId     pause and setVolume sent with zone ids                 *)
(*   SpecRegistry   registry and reconciler with renderers whose accessors *)
(*             answer nothing and events that name rooms in other ways     *)
(*   SpecSnapshot   the playback snapshots the listeners publish, with P1  *)
(*             playing each of MediaStates                                 *)
(*   SpecWake       play and the load commands on a group whose members    *)
(*             go to standby and wake                                      *)
(*   SpecFrame      all commands, with enterStandby and playSystemSound,   *)
(*             and the listeners                                           *)
(*   SpecPublished  a caller that keeps the list it has read from          *)
(*             getState() while the listeners publish                      *)
(*   SpecVolume     setVolume and setMute received one after the other     *)
(*             while the calls of the earlier ones are on their way        *)
(*   SpecInstall    IntegrationManager.ensureIntegrationInstalled, which   *)
(*             index.js awaits on startup, in every environment            *)
(*   SpecShared     registry and reconciler with two renderers of one room *)
(***************************************************************************)
EXTENDS Integers, Sequences, FiniteSets, TLC

VARIABLES
    mediaRenderers,         \* deviceManager.mediaRenderers
    mediaRenderersVirtual,  \* deviceManager.mediaRenderersVirtual
    zoneConfig,             \* zone configuration of the zoneManager
    managersUp,             \* raumkernel.managerDisposer is there
    _rooms,                 \* RaumkernelHelper._rooms, in insertion order
    isReady,                \* RaumkernelHelper._state.isReady
    availableRooms,         \* RaumkernelHelper._state.availableRooms
    lastZones,              \* the argument of the last combinedZoneStateChanged
    trace,                  \* what the last listener that wrote the registry did
    handedOut,              \* the array a caller has read from
                            \* getState().availableRooms and still holds
    requests,               \* the setVolume and setMute commands received
                            \* and the calls of the library made for them
    integration,            \* IntegrationManager: its options, the files it
                            \* reads and writes, and how far it has got
    cmd                     \* the command method in flight

envVars  == <<mediaRenderers, mediaRenderersVirtual, zoneConfig, managersUp>>
progVars == <<_rooms, isReady, availableRooms>>
obsVars  == <<lastZones, trace, handedOut, requests, integration>>
vars     == <<mediaRenderers, mediaRenderersVirtual, zoneConfig, managersUp,
              _rooms, isReady, availableRooms, lastZones, trace, handedOut,
              requests, integration, cmd>>

\* No setVolume or setMute received yet
NoRequests == [received |-> <<>>, issued |-> <<>>, returned |-> 0]

\* index.js has awaited ensureIntegrationInstalled() before it constructs
\* the helper: the IntegrationManager takes no further step.
IntegrationSettled == [pc |-> "done"]

\* The array a caller holds.  The model's lists are values, the program's
\* are objects: list is what the held array contains, current says that it
\* is still the array _state.availableRooms refers to, shared that the
\* zoneMembers arrays of its entries are still those of the records of the
\* registry (an entry is built with zoneMembers: room.zoneMembers).
NothingHeld == [taken |-> FALSE, list |-> <<>>, current |-> FALSE, shared |-> FALSE]

\* _broadcastRoomStates fills a new array rooms and assigns it to
\* _state.availableRooms: the held array is no longer the current one.
Reassigned(h, rooms) == [h EXCEPT !.current = FALSE]

\* A reconciler that empties and refills the zoneMembers arrays of the
\* records instead of assigning new ones
Remapped_inPlace(h, rooms) ==
    IF ~h.shared THEN h
    ELSE [h EXCEPT !.list =
            [j \in 1..Len(h.list) |->
                LET S == { i \in 1..Len(rooms) :
                             rooms[i].rendererUdn = h.list[j].rendererUdn }
                IN IF S = {} THEN h.list[j]
                   ELSE [h.list[j] EXCEPT
                            !.zoneMembers = rooms[CHOOSE i \in S : TRUE].zoneMembers]]]

\* _updateZoneMappings assigns a new zoneMembers array to every record
\* (rooms is the registry it leaves): no held entry shares one any more.
Remapped(h, rooms) == [h EXCEPT !.shared = FALSE]

\* _resetState assigns a new _state with a new empty array and clears the
\* registry.
Released(h) == [h EXCEPT !.current = FALSE, !.shared = FALSE]

(***************************************************************************)
(* Values.  null and undefined are None; a missing name is NoName.         *)
(***************************************************************************)
None   == "none"
NoName == <<>>

\* Bounds of the model.
MaxZones   == 2     \* zone descriptors in one combinedZoneStateChanged event
MaxMembers == 2     \* rooms named by one zone descriptor

ZoneIds == {"Z1", "Z2"}

\* Display names are sequences of characters, so that case folding, ordering
\* and substring search are computed and not assumed.
Name_Bad     == <<"B", "a", "d">>
Name_bade    == <<"b", "a", "d", "e">>
Name_Zone    == <<"Z", "o", "n", "e">>
Name_Unknown == <<"U", "n", "k", "n", "o", "w", "n", " ", "R", "o", "o", "m">>

UpperChars == <<"B", "Z", "U", "R", "A", "D", "E">>
LowerChars == <<"b", "z", "u", "r", "a", "d", "e">>
\* String.prototype.toLowerCase, one character
toLowerChar(c) ==
    IF \E i \in 1..Len(UpperChars) : UpperChars[i] = c
    THEN LowerChars[CHOOSE i \in 1..Len(UpperChars) : UpperChars[i] = c]
    ELSE c
toLowerCase(s) == [i \in 1..Len(s) |-> toLowerChar(s[i])]

\* Collation order of the characters in use (space first, then letters).
Collation == <<" ", "a", "b", "d", "e", "k", "m", "n", "o", "r", "u", "w", "z">>
Chars == { Collation[i] : i \in 1..Len(Collation) }
         \cup { UpperChars[i] : i \in 1..Len(UpperChars) }
CharRank == [c \in Chars |->
                CHOOSE i \in 1..Len(Collation) : Collation[i] = toLowerChar(c)]

\* a.localeCompare(b) < 0: compared letter by letter without regard to case,
\* a proper prefix first.
RECURSIVE localeLess(_, _)
localeLess(a, b) ==
    IF b = <<>> THEN FALSE
    ELSE IF a = <<>> THEN TRUE
    ELSE IF CharRank[Head(a)] # CharRank[Head(b)]
         THEN CharRank[Head(a)] < CharRank[Head(b)]
         ELSE localeLess(Tail(a), Tail(b))

PowerStates == {"ACTIVE", "MANUAL_STANDBY"}
\* powerState.includes('STANDBY')
includesSTANDBY(p) == p \in {"STANDBY", "MANUAL_STANDBY", "AUTOMATIC_STANDBY"}

(***************************************************************************)
(* The physical renderers the library can discover.  roomUdn and roomName  *)
(* are what renderer.roomUdn() and renderer.roomName() answer; None and    *)
(* NoName stand for an accessor that is missing or answers nothing.        *)
(***************************************************************************)
\* renderer.rendererState as far as _extractNowPlaying reads it, with the
\* upnp:class and the dc:title that _parseMetadata takes from its metadata:
\* CurrentTransportActions is the set of the actions the string names,
\* classString the class as its segments ('object.item.audioItem' is
\* <<"object", "item", "audioItem">>), track whether there is a title.
RendererState(t, a, c, n, title) ==
    [TransportState |-> t, CurrentTransportActions |-> a, classString |-> c,
     NumberOfTracks |-> n, track |-> title]

\* The rendererState of a renderer that has played nothing yet
NothingPlayed == RendererState("STOPPED", {}, <<>>, 0, FALSE)

PhysicalRenderer(u, r, rn, n, p) ==
    [udn |-> u, roomUdn |-> r, roomName |-> rn, name |-> n, power |-> p,
     rendererState |-> NothingPlayed]

Devices ==
    { PhysicalRenderer("P1", "R1", Name_Bad, Name_Bad, p) : p \in PowerStates }
    \cup
    { PhysicalRenderer("P2", "R2", Name_bade, Name_bade, "ACTIVE") }

PhysIds == { d.udn : d \in Devices }

\* Lists of distinct elements of S, of length lo..hi.
ListsOver(S, lo, hi) ==
    { s \in UNION { [1..n -> S] : n \in lo..hi } :
        \A i, j \in 1..Len(s) : i # j => s[i] # s[j] }

\* A virtual renderer and the renderer UDNs its getRoomRendererUDNs() declares.
\* power is its own rendererState.PowerState.
VirtualRenderer(z, m) ==
    [udn |-> z, members |-> m, power |-> "ACTIVE", rendererState |-> NothingPlayed]

\* One descriptor of combinedState.zones; rooms is zone.rooms.map(r => r.udn).
ZoneDescriptor(z, g, m) == [udn |-> z, name |-> Name_Zone, isZone |-> g, rooms |-> m]

(***************************************************************************)
(* Handles.  A command holds the renderer object it resolved, also after   *)
(* the library has dropped that object from its collections.               *)
(***************************************************************************)
NoRenderer == [kind |-> "none", udn |-> None, members |-> <<>>]
Physical(r) == [kind |-> "physical", udn |-> r.udn, members |-> <<>>]
Virtual(v)  == [kind |-> "virtual", udn |-> v.udn, members |-> v.members]

\* renderer?.loadUri, renderer?.loadContainer, renderer?.loadSingle: the
\* virtual renderers of the library have them, the physical ones do not
\* ("limited functionality").
CanLoad(renderer) == renderer.kind = "virtual"

\* Map.has / Map.get on a collection kept as a sequence of records with a udn
MapHas(m, k) == \E i \in 1..Len(m) : m[i].udn = k
MapGet(m, k) == m[CHOOSE i \in 1..Len(m) : m[i].udn = k]
MapDelete(m, k) == SelectSeq(m, LAMBDA e : e.udn # k)

\* deviceManager.mediaRenderers.get(udn) as a handle
getMediaRenderer(udn) ==
    IF MapHas(mediaRenderers, udn) THEN Physical(MapGet(mediaRenderers, udn))
    ELSE NoRenderer

\* deviceManager.mediaRenderersVirtual.get(udn) as a handle
getMediaRendererVirtual(udn) ==
    IF MapHas(mediaRenderersVirtual, udn)
    THEN Virtual(MapGet(mediaRenderersVirtual, udn))
    ELSE NoRenderer

\* zoneManager.getZoneUDNFromRoomUDN(roomUdn): the zone of the configuration
\* that holds the room, if any
getZoneUDNFromRoomUDN(roomUdn) ==
    LET hit == { i \in 1..Len(zoneConfig) :
                   /\ zoneConfig[i].isZone
                   /\ \E k \in 1..Len(zoneConfig[i].rooms) :
                          zoneConfig[i].rooms[k] = roomUdn }
    IN IF hit = {} THEN None
       ELSE zoneConfig[CHOOSE i \in hit : \A j \in hit : i <= j].udn

(***************************************************************************)
(* Room registry                                                           *)
(***************************************************************************)
\* _createRoomInfo(rendererUdn, renderer)
_createRoomInfo(rendererUdn, renderer) ==
    LET name == IF renderer.roomName # NoName THEN renderer.roomName
                ELSE IF renderer.name # NoName THEN renderer.name
                ELSE Name_Unknown
        roomUdn == IF renderer.roomUdn # None THEN renderer.roomUdn
                   ELSE rendererUdn
    IN [name |-> name, roomUdn |-> roomUdn, rendererUdn |-> rendererUdn,
        zoneUdn |-> None, zoneMembers |-> <<roomUdn>>, zoneName |-> NoName]

\* A loop that writes the entry of a renderer the registry has anew
RECURSIVE RegisterFrom_update(_, _, _)
RegisterFrom_update(rooms, renderers, k) ==
    IF k > Len(renderers) THEN rooms
    ELSE IF \E i \in 1..Len(rooms) : rooms[i].rendererUdn = renderers[k].udn
         THEN RegisterFrom_update(
                  [i \in 1..Len(rooms) |->
                      IF rooms[i].rendererUdn = renderers[k].udn
                      THEN _createRoomInfo(renderers[k].udn, renderers[k])
                      ELSE rooms[i]],
                  renderers, k + 1)
         ELSE RegisterFrom_update(
                  Append(rooms, _createRoomInfo(renderers[k].udn, renderers[k])),
                  renderers, k + 1)

\* The loop of _refreshRoomRegistry over deviceManager.mediaRenderers, from
\* entry k on: a renderer the registry has is skipped, another one is added.
RECURSIVE RegisterFrom(_, _, _)
RegisterFrom(rooms, renderers, k) ==
    IF k > Len(renderers) THEN rooms
    ELSE IF \E i \in 1..Len(rooms) : rooms[i].rendererUdn = renderers[k].udn
         THEN RegisterFrom(rooms, renderers, k + 1)
         ELSE RegisterFrom(
                  Append(rooms, _createRoomInfo(renderers[k].udn, renderers[k])),
                  renderers, k + 1)

\* A refresh that builds the registry anew from the renderers of the library
_refreshRoomRegistry_rebuild(rooms) ==
    IF ~managersUp THEN rooms
    ELSE RegisterFrom(<<>>, mediaRenderers, 1)

\* The registry after _refreshRoomRegistry (before its _broadcastRoomStates)
_refreshRoomRegistry(rooms) ==
    IF ~managersUp THEN rooms
    ELSE RegisterFrom(rooms, mediaRenderers, 1)

\* _findRoomByAnyUdn(udn): the index of the room in the registry, 0 if none
_findRoomByAnyUdn(rooms, udn) ==
    IF \E i \in 1..Len(rooms) : rooms[i].rendererUdn = udn
    THEN CHOOSE i \in 1..Len(rooms) : rooms[i].rendererUdn = udn
    ELSE IF \E i \in 1..Len(rooms) : rooms[i].roomUdn = udn
         THEN CHOOSE i \in 1..Len(rooms) :
                  /\ rooms[i].roomUdn = udn
                  /\ \A j \in 1..Len(rooms) : rooms[j].roomUdn = udn => i <= j
         ELSE 0

\* A reset that leaves an ungrouped room without members
ResetZoneMappings_noMembers(rooms) ==
    [i \in 1..Len(rooms) |->
        [rooms[i] EXCEPT !.zoneUdn = None,
                         !.zoneMembers = <<>>,
                         !.zoneName = NoName]]

\* The first loop of _updateZoneMappings: every room back to ungrouped
ResetZoneMappings(rooms) ==
    [i \in 1..Len(rooms) |->
        [rooms[i] EXCEPT !.zoneUdn = None,
                         !.zoneMembers = <<rooms[i].roomUdn>>,
                         !.zoneName = NoName]]

\* The inner loop of _updateZoneMappings: the members of one zone, from k on
RECURSIVE ApplyMembers(_, _, _)
ApplyMembers(rooms, zone, k) ==
    IF k > Len(zone.rooms) THEN rooms
    ELSE LET i == _findRoomByAnyUdn(rooms, zone.rooms[k])
         IN IF i = 0 THEN ApplyMembers(rooms, zone, k + 1)
            ELSE ApplyMembers(
                     [rooms EXCEPT ![i] = [@ EXCEPT !.zoneUdn = zone.udn,
                                                    !.zoneMembers = zone.rooms,
                                                    !.zoneName = zone.name]],
                     zone, k + 1)

\* An outer loop that does not ask whether a zone is flagged as a group
RECURSIVE ApplyZones_all(_, _, _)
ApplyZones_all(rooms, zones, j) ==
    IF j > Len(zones) THEN rooms
    ELSE ApplyZones_all(ApplyMembers(rooms, zones[j], 1), zones, j + 1)

\* The outer loop of _updateZoneMappings: the zones of the event, from j on
RECURSIVE ApplyZones(_, _, _)
ApplyZones(rooms, zones, j) ==
    IF j > Len(zones) THEN rooms
    ELSE IF ~zones[j].isZone THEN ApplyZones(rooms, zones, j + 1)
         ELSE ApplyZones(ApplyMembers(rooms, zones[j], 1), zones, j + 1)

\* A reconciler that patches the rooms the event names and leaves the others
\* as they are
_updateZoneMappings_patch(rooms, combinedState) ==
    IF ~combinedState.hasZones THEN rooms
    ELSE ApplyZones(rooms, combinedState.zones, 1)

\* _updateZoneMappings(combinedState)
_updateZoneMappings(rooms, combinedState) ==
    IF ~combinedState.hasZones THEN rooms
    ELSE ApplyZones(ResetZoneMappings(rooms), combinedState.zones, 1)

(***************************************************************************)
(* Playback state                                                          *)
(***************************************************************************)
\* _createEmptyNowPlaying()
_createEmptyNowPlaying ==
    [empty |-> TRUE, isPlaying |-> FALSE, isLoading |-> FALSE,
     canPlayPause |-> FALSE, canPlayNext |-> FALSE, canPlayPrev |-> FALSE,
     powerState |-> "STANDBY"]

\* classString.includes(word), classString.startsWith('object.container')
\* and /playlist|album|podcastContainer/i.test(classString), on segments
classIncludes(c, word) == \E i \in 1..Len(c) : c[i] = word
_isContainerMedia(c) ==
    /\ c # <<>>
    /\ \/ (Len(c) >= 2 /\ c[1] = "object" /\ c[2] = "container")
       \/ \E i \in 1..Len(c) :
              c[i] \in {"playlist", "playlistContainer", "album", "musicAlbum",
                        "podcastContainer"}

\* The rendererState of the renderer a handle stands for
StateOfHandle(renderer, renderers) ==
    IF renderer.kind = "physical" THEN MapGet(renderers, renderer.udn).rendererState
    ELSE MapGet(mediaRenderersVirtual, renderer.udn).rendererState

\* A snapshot that takes the power state from the renderer it reads
PowerStateFor_ofRenderer(renderer, room, renderers) ==
    IF renderer.kind = "physical" THEN MapGet(renderers, renderer.udn).power
    ELSE MapGet(mediaRenderersVirtual, renderer.udn).power

\* The power state the snapshot of room gets
PowerStateFor(renderer, room, renderers) ==
    IF managersUp /\ MapHas(renderers, room.rendererUdn)
    THEN MapGet(renderers, room.rendererUdn).power
    ELSE "ACTIVE"

\* A snapshot whose fallback does not ask whether the content is radio
NowPlaying_radioInferred(state, powerState) ==
    LET isLoading == state.TransportState = "TRANSITIONING"
        actions == state.CurrentTransportActions
        fallback == \/ _isContainerMedia(state.classString) /\ state.track
                    \/ state.NumberOfTracks > 1
    IN [empty |-> FALSE,
        isPlaying |-> state.TransportState = "PLAYING",
        isLoading |-> isLoading,
        canPlayPause |-> actions \cap {"Play", "Pause", "Stop"} # {},
        canPlayNext |-> ~isLoading /\ ("Next" \in actions \/ fallback),
        canPlayPrev |-> ~isLoading /\ ("Previous" \in actions \/ fallback),
        powerState |-> powerState]

\* A snapshot that returns canPlayNext and canPlayPrev as computed
NowPlaying_whileLoading(state, powerState) ==
    LET actions == state.CurrentTransportActions
        isRadio == \/ classIncludes(state.classString, "audioBroadcast")
                   \/ classIncludes(state.classString, "radio")
        fallback == /\ ~isRadio
                    /\ \/ _isContainerMedia(state.classString) /\ state.track
                       \/ state.NumberOfTracks > 1
    IN [empty |-> FALSE,
        isPlaying |-> state.TransportState = "PLAYING",
        isLoading |-> state.TransportState = "TRANSITIONING",
        canPlayPause |-> actions \cap {"Play", "Pause", "Stop"} # {},
        canPlayNext |-> "Next" \in actions \/ fallback,
        canPlayPrev |-> "Previous" \in actions \/ fallback,
        powerState |-> powerState]

\* The snapshot of rendererState state with power state powerState
NowPlaying(state, powerState) ==
    LET isLoading == state.TransportState = "TRANSITIONING"
        actions == state.CurrentTransportActions
        explicitNext == "Next" \in actions
        explicitPrev == "Previous" \in actions
        isRadio == \/ classIncludes(state.classString, "audioBroadcast")
                   \/ classIncludes(state.classString, "radio")
        fallback == /\ ~explicitNext \/ ~explicitPrev
                    /\ ~isRadio
                    /\ \/ _isContainerMedia(state.classString) /\ state.track
                       \/ state.NumberOfTracks > 1
        canPlayNext == explicitNext \/ fallback
        canPlayPrev == explicitPrev \/ fallback
    IN [empty |-> FALSE,
        isPlaying |-> state.TransportState = "PLAYING",
        isLoading |-> isLoading,
        canPlayPause |-> actions \cap {"Play", "Pause", "Stop"} # {},
        canPlayNext |-> ~isLoading /\ canPlayNext,
        canPlayPrev |-> ~isLoading /\ canPlayPrev,
        powerState |-> powerState]

\* _extractNowPlaying(renderer, room): the playback fields are those of
\* renderer, the power state is the one of the room's physical renderer.
\* renderers is deviceManager.mediaRenderers at the time of the call.
_extractNowPlaying(renderer, room, renderers) ==
    NowPlaying(StateOfHandle(renderer, renderers),
               PowerStateFor(renderer, room, renderers))

\* A snapshot that prefers the room's physical renderer to the zone's
_getNowPlayingForRoom_physicalFirst(room, ready, renderers) ==
    IF ~ready \/ ~managersUp THEN _createEmptyNowPlaying
    ELSE IF MapHas(renderers, room.rendererUdn)
         THEN _extractNowPlaying(Physical(MapGet(renderers, room.rendererUdn)),
                                 room, renderers)
    ELSE IF room.zoneUdn # None /\ getMediaRendererVirtual(room.zoneUdn) # NoRenderer
         THEN _extractNowPlaying(getMediaRendererVirtual(room.zoneUdn), room, renderers)
    ELSE _createEmptyNowPlaying

\* _getNowPlayingForRoom(room), with _state.isReady as ready
_getNowPlayingForRoom(room, ready, renderers) ==
    IF ~ready THEN _createEmptyNowPlaying
    ELSE IF ~managersUp THEN _createEmptyNowPlaying
    ELSE LET zoneRenderer == IF room.zoneUdn # None
                             THEN getMediaRendererVirtual(room.zoneUdn)
                             ELSE NoRenderer
             renderer == IF zoneRenderer # NoRenderer THEN zoneRenderer
                         ELSE IF MapHas(renderers, room.rendererUdn)
                              THEN Physical(MapGet(renderers, room.rendererUdn))
                              ELSE NoRenderer
         IN IF renderer # NoRenderer
            THEN _extractNowPlaying(renderer, room, renderers)
            ELSE _createEmptyNowPlaying

\* One entry of availableRooms
RoomState(room, ready, renderers) ==
    [name |-> room.name, roomUdn |-> room.roomUdn,
     rendererUdn |-> room.rendererUdn, zoneUdn |-> room.zoneUdn,
     zoneName |-> room.zoneName, zoneMembers |-> room.zoneMembers,
     nowPlaying |-> _getNowPlayingForRoom(room, ready, renderers)]

\* a.name.localeCompare(b.name) < 0 for the names the rooms can have
RoomNames == {Name_Bad, Name_bade, Name_Unknown}
nameBefore == [a \in RoomNames, b \in RoomNames |-> localeLess(a, b)]

\* Array.prototype.sort with (a, b) => a.name.localeCompare(b.name): stable
RECURSIVE InsertByName(_, _)
InsertByName(sorted, e) ==
    IF sorted = <<>> THEN <<e>>
    ELSE IF nameBefore[e.name, Head(sorted).name]
         THEN <<e>> \o sorted
         ELSE <<Head(sorted)>> \o InsertByName(Tail(sorted), e)

RECURSIVE SortByName(_, _)
SortByName(list, k) ==
    IF k = 0 THEN <<>>
    ELSE InsertByName(SortByName(list, k - 1), list[k])

\* The value _broadcastRoomStates assigns to _state.availableRooms
_broadcastRoomStates(rooms, ready, renderers) ==
    SortByName([i \in 1..Len(rooms) |-> RoomState(rooms[i], ready, renderers)],
               Len(rooms))

(***************************************************************************)
(* The inputs of the environment                                           *)
(***************************************************************************)
MemberIds == {"R1", "R2"}
MemberLists == ListsOver(MemberIds, 1, MaxMembers) \ { <<"R1", "R2">> }

\* The zone descriptors of the events: groups of every membership, and for
\* every zone id one descriptor that is not flagged as a group.
ZoneDescriptors ==
    { ZoneDescriptor(z, TRUE, m) : z \in ZoneIds, m \in MemberLists }
    \cup { ZoneDescriptor(z, FALSE, <<"R1", "R2">>) : z \in ZoneIds }

\* Zone lists of at most MaxZones descriptors, zone Z1 before zone Z2.
ZoneLists ==
    { t \in UNION { [1..n -> ZoneDescriptors] : n \in 0..MaxZones } :
        \A i, j \in 1..Len(t) : i < j => (t[i].udn = "Z1" /\ t[j].udn = "Z2") }

\* The argument of combinedZoneStateChanged
CombinedState(zones) == [hasZones |-> TRUE, zones |-> zones]
EventPayloads == { CombinedState(t) : t \in ZoneLists }

(***************************************************************************)
(* Room lookup                                                             *)
(***************************************************************************)
\* An identifier a client sends: a UDN, or a text that is no UDN.  text is
\* the identifier as characters, udn the identifier as a whole.
UdnIdentifier(u)  == [udn |-> u, text |-> <<"u", "u", "i", "d", ":", u>>]
TextIdentifier(t) == [udn |-> "(no udn)", text |-> t]

Identifiers ==
    { UdnIdentifier(u) : u \in {"R1", "R2", "Z1", "Z2", "P1"} }
    \cup { TextIdentifier(t) :
             t \in { <<>>, <<"a", "d">>, <<"B", "A", "D">>, <<"a", "d", "e">> } }

\* String.prototype.includes
includes(s, t) ==
    /\ Len(t) <= Len(s)
    /\ \E i \in 0..(Len(s) - Len(t)) : SubSeq(s, i + 1, i + Len(t)) = t

FirstIndex(S) == CHOOSE i \in S : \A j \in S : i <= j

\* A lookup that knows room UDNs and names, but no zone UDNs
findRoom_noZone(rooms, identifier) ==
    IF identifier.text = <<>> THEN 0
    ELSE LET byRoom == { i \in 1..Len(rooms) : rooms[i].roomUdn = identifier.udn }
             byName == { i \in 1..Len(rooms) :
                           includes(toLowerCase(rooms[i].name),
                                    toLowerCase(identifier.text)) }
         IN IF byRoom # {} THEN FirstIndex(byRoom)
            ELSE IF Len(identifier.text) > 2 /\ Cardinality(byName) = 1
                 THEN FirstIndex(byName)
                 ELSE 0

\* A lookup by name that takes the first room whose name holds the
\* identifier
findRoom_firstMatch(rooms, identifier) ==
    IF identifier.text = <<>> THEN 0
    ELSE LET byRoom == { i \in 1..Len(rooms) : rooms[i].roomUdn = identifier.udn }
             byZone == { i \in 1..Len(rooms) : rooms[i].zoneUdn = identifier.udn }
             byName == { i \in 1..Len(rooms) :
                           includes(toLowerCase(rooms[i].name),
                                    toLowerCase(identifier.text)) }
         IN IF byRoom # {} THEN FirstIndex(byRoom)
            ELSE IF byZone # {} THEN FirstIndex(byZone)
            ELSE IF Len(identifier.text) > 2 /\ byName # {}
                 THEN FirstIndex(byName)
                 ELSE 0

\* findRoom(identifier) on the list rooms (_state.availableRooms): the index
\* of the room found, 0 for undefined
findRoom(rooms, identifier) ==
    IF identifier.text = <<>> THEN 0
    ELSE LET byRoom == { i \in 1..Len(rooms) : rooms[i].roomUdn = identifier.udn }
             byZone == { i \in 1..Len(rooms) : rooms[i].zoneUdn = identifier.udn }
             byName == { i \in 1..Len(rooms) :
                           includes(toLowerCase(rooms[i].name),
                                    toLowerCase(identifier.text)) }
         IN IF byRoom # {} THEN FirstIndex(byRoom)
            ELSE IF byZone # {} THEN FirstIndex(byZone)
            ELSE IF Len(identifier.text) > 2 /\ Cardinality(byName) = 1
                 THEN FirstIndex(byName)
                 ELSE 0

\* What a command keeps of the room it found
NoRoom == [found |-> FALSE, roomUdn |-> None, rendererUdn |-> None, zoneUdn |-> None]
RoomOf(r) == [found |-> TRUE, roomUdn |-> r.roomUdn,
              rendererUdn |-> r.rendererUdn, zoneUdn |-> r.zoneUdn]
FoundRoom(identifier) ==
    LET i == findRoom(availableRooms, identifier)
    IN IF i = 0 THEN NoRoom ELSE RoomOf(availableRooms[i])

(***************************************************************************)
(* Renderer resolution                                                     *)
(***************************************************************************)
\* A search that finds no virtual renderer
ScanVirtual_none(rendererUdn) == NoRenderer

\* The loop over deviceManager.mediaRenderersVirtual: the first virtual
\* renderer whose getRoomRendererUDNs() holds rendererUdn
ScanVirtual(rendererUdn) ==
    LET hit == { i \in 1..Len(mediaRenderersVirtual) :
                   \E k \in 1..Len(mediaRenderersVirtual[i].members) :
                       mediaRenderersVirtual[i].members[k] = rendererUdn }
    IN IF hit = {} THEN NoRenderer
       ELSE Virtual(mediaRenderersVirtual[FirstIndex(hit)])

\* A resolution that asks the cached zone id before the live one
_getRendererForRoom_cachedFirst(room) ==
    IF ~room.found THEN NoRenderer
    ELSE IF ~managersUp THEN NoRenderer
    ELSE LET live == getZoneUDNFromRoomUDN(room.roomUdn)
             zoneUdn == IF room.zoneUdn # None THEN room.zoneUdn ELSE live
             zoneRenderer == IF zoneUdn # None
                             THEN getMediaRendererVirtual(zoneUdn)
                             ELSE NoRenderer
             scanned == ScanVirtual(room.rendererUdn)
         IN IF zoneRenderer # NoRenderer THEN zoneRenderer
            ELSE IF scanned # NoRenderer THEN scanned
            ELSE getMediaRenderer(room.rendererUdn)

\* A resolution that remembers the zone the room was published with and
\* does not ask the zoneManager again
_getRendererForRoom_remembered(room) ==
    IF ~room.found THEN NoRenderer
    ELSE IF ~managersUp THEN NoRenderer
    ELSE LET zoneRenderer == IF room.zoneUdn # None
                             THEN getMediaRendererVirtual(room.zoneUdn)
                             ELSE NoRenderer
             scanned == ScanVirtual(room.rendererUdn)
         IN IF zoneRenderer # NoRenderer THEN zoneRenderer
            ELSE IF scanned # NoRenderer THEN scanned
            ELSE getMediaRenderer(room.rendererUdn)

\* _getRendererForRoom(room)
_getRendererForRoom(room) ==
    IF ~room.found THEN NoRenderer
    ELSE IF ~managersUp THEN NoRenderer
    ELSE LET live == getZoneUDNFromRoomUDN(room.roomUdn)
             zoneUdn == IF live = None /\ room.zoneUdn # None
                        THEN room.zoneUdn ELSE live
             zoneRenderer == IF zoneUdn # None
                             THEN getMediaRendererVirtual(zoneUdn)
                             ELSE NoRenderer
             scanned == ScanVirtual(room.rendererUdn)
         IN IF zoneRenderer # NoRenderer THEN zoneRenderer
            ELSE IF scanned # NoRenderer THEN scanned
            ELSE getMediaRenderer(room.rendererUdn)

(***************************************************************************)
(* Commands.  A command method runs until it awaits a call of the library  *)
(* or a timer, and goes on when that has returned; cmd is the method in    *)
(* flight:                                                                 *)
(*   op        the method                                                  *)
(*   pc        "idle", or where the method waits: "connect" (for           *)
(*             connectRoomToZone), "poll" (for _delay), "wake" (for        *)
(*             leaveStandby), or "done" when it has returned or thrown     *)
(*   room      the room findRoom answered                                  *)
(*   renderer  the renderer the method holds                               *)
(*   checks    zone lookups of the poll loop of _ensureVirtualRenderer     *)
(*   waits     calls of _delay by that loop                                *)
(*   k         the member of the virtual renderer _wakeRenderer waits for  *)
(*   calls     the calls of the library made so far, in order              *)
(*   logged    the method has logged that it has no renderer               *)
(*   result    "resolved" or "rejected" once the method is done            *)
(***************************************************************************)
maxAttempts == 15

PlaybackCommands == {"play", "pause", "setVolume"}
LoadCommands     == {"loadUri", "loadContainer", "loadSingle"}

NoCommand ==
    [op |-> "none", pc |-> "idle", room |-> NoRoom, renderer |-> NoRenderer,
     checks |-> 0, waits |-> 0, k |-> 0, calls |-> <<>>, logged |-> FALSE,
     result |-> "none"]

\* One call of a method of a renderer or of the zoneManager; outcome is
\* "pending" until the call has returned, then "ok" or "failed".
Call(m, kind, udn, outcome) ==
    [method |-> m, kind |-> kind, udn |-> udn, outcome |-> outcome]
Outcome(ok) == IF ok THEN "ok" ELSE "failed"

\* The call the command waits for has returned.
Returned(c, ok) ==
    [c EXCEPT !.calls = [@ EXCEPT ![Len(@)] = [@ EXCEPT !.outcome = Outcome(ok)]]]

\* The method returns without a call.
ReturnsNothing(c) == [c EXCEPT !.pc = "done", !.result = "resolved"]

\* The call of the operation on the physical renderer of the room
CallOperation_onRoomRenderer(c, ok) ==
    [c EXCEPT !.pc = "done", !.k = 0,
              !.calls = Append(@, Call(c.op, "physical", c.room.rendererUdn,
                                       Outcome(ok))),
              !.result = IF ok THEN "resolved" ELSE "rejected"]

\* return renderer.<op>(...): the call and, with it, the outcome of the method
CallOperation(c, ok) ==
    [c EXCEPT !.pc = "done", !.k = 0,
              !.calls = Append(@, Call(c.op, c.renderer.kind, c.renderer.udn,
                                       Outcome(ok))),
              !.result = IF ok THEN "resolved" ELSE "rejected"]

\* rendererState.PowerState of physical renderer u includes 'STANDBY'
InStandby(u) ==
    /\ MapHas(mediaRenderers, u)
    /\ includesSTANDBY(MapGet(mediaRenderers, u).power)

\* The member of a virtual renderer, from member k on, that _wakeRenderer
\* wakes next: it is a renderer of the deviceManager and in standby.  0 if
\* there is none.
NextToWake(renderer, k) ==
    LET S == { j \in k..Len(renderer.members) :
                 managersUp /\ InStandby(renderer.members[j]) }
    IN IF S = {} THEN 0 ELSE FirstIndex(S)

\* The call of the operation without _wakeRenderer
WakeThenCall_asleep(c, k, ok) == CallOperation(c, ok)

\* A _wakeRenderer without the try/catch around leaveStandby: a wake call
\* that fails ends the command
WakeThenCall_failFast(c, k, ok) ==
    LET j == IF c.renderer.kind = "physical"
             THEN (IF k = 1 /\ InStandby(c.renderer.udn) THEN 1 ELSE 0)
             ELSE NextToWake(c.renderer, k)
        u == IF c.renderer.kind = "physical" THEN c.renderer.udn
             ELSE c.renderer.members[j]
    IN IF c.calls # <<>> /\ c.calls[Len(c.calls)].method = "leaveStandby"
          /\ c.calls[Len(c.calls)].outcome = "failed"
       THEN [c EXCEPT !.pc = "done", !.k = 0, !.result = "rejected"]
       ELSE IF j # 0
       THEN [c EXCEPT !.pc = "wake", !.k = j,
                      !.calls = Append(@, Call("leaveStandby", "physical", u,
                                               "pending"))]
       ELSE CallOperation(c, ok)

\* await this._wakeRenderer(renderer), from member k on, and then the call
\* of the operation with outcome ok.  A physical renderer counts as its own
\* member 1.
WakeThenCall(c, k, ok) ==
    LET j == IF c.renderer.kind = "physical"
             THEN (IF k = 1 /\ InStandby(c.renderer.udn) THEN 1 ELSE 0)
             ELSE NextToWake(c.renderer, k)
        u == IF c.renderer.kind = "physical" THEN c.renderer.udn
             ELSE c.renderer.members[j]
    IN IF j # 0
       THEN [c EXCEPT !.pc = "wake", !.k = j,
                      !.calls = Append(@, Call("leaveStandby", "physical", u,
                                               "pending"))]
       ELSE CallOperation(c, ok)

\* The load methods once they hold the renderer of _ensureVirtualRenderer, or
\* a renderer that can load
LoadOn(c, ok) ==
    IF c.renderer # NoRenderer /\ CanLoad(c.renderer)
    THEN WakeThenCall(c, 1, ok)
    ELSE [c EXCEPT !.pc = "done", !.logged = TRUE, !.result = "resolved"]

\* A poll loop with one round more
Poll_oneMore(c, ok) ==
    LET zoneUdn == getZoneUDNFromRoomUDN(c.room.roomUdn)
        scanned == ScanVirtual(c.room.rendererUdn)
        checked == [c EXCEPT !.checks = @ + 1]
    IN IF zoneUdn # None /\ MapHas(mediaRenderersVirtual, zoneUdn)
       THEN LoadOn([checked EXCEPT !.renderer = getMediaRendererVirtual(zoneUdn)],
                   ok)
       ELSE IF checked.checks <= maxAttempts
            THEN [checked EXCEPT !.pc = "poll", !.waits = @ + 1]
            ELSE LoadOn([checked EXCEPT !.renderer =
                            IF scanned # NoRenderer THEN scanned
                            ELSE getMediaRenderer(c.room.rendererUdn)],
                        ok)

\* One round of the poll loop of _ensureVirtualRenderer and, when the loop is
\* left, the rest of the method and of the load method that called it
Poll(c, ok) ==
    LET zoneUdn == getZoneUDNFromRoomUDN(c.room.roomUdn)
        scanned == ScanVirtual(c.room.rendererUdn)
        checked == [c EXCEPT !.checks = @ + 1]
    IN IF zoneUdn # None /\ MapHas(mediaRenderersVirtual, zoneUdn)
       THEN LoadOn([checked EXCEPT !.renderer = getMediaRendererVirtual(zoneUdn)],
                   ok)
       ELSE IF checked.checks < maxAttempts
            THEN [checked EXCEPT !.pc = "poll", !.waits = @ + 1]
            ELSE LoadOn([checked EXCEPT !.renderer =
                            IF scanned # NoRenderer THEN scanned
                            ELSE getMediaRenderer(c.room.rendererUdn)],
                        ok)

\* A helper whose pause and setVolume wake the renderer as play does
StartPlayback_waking(op, identifier, ok) ==
    LET room == FoundRoom(identifier)
        c == [NoCommand EXCEPT !.op = op, !.room = room,
                               !.renderer = _getRendererForRoom(room)]
    IN IF c.renderer = NoRenderer THEN ReturnsNothing(c)
       ELSE WakeThenCall(c, 1, ok)

\* play, pause and setVolume up to their first await
StartPlayback(op, identifier, ok) ==
    LET room == FoundRoom(identifier)
        c == [NoCommand EXCEPT !.op = op, !.room = room,
                               !.renderer = _getRendererForRoom(room)]
    IN IF c.renderer = NoRenderer THEN ReturnsNothing(c)
       ELSE IF op = "play" THEN WakeThenCall(c, 1, ok)
       ELSE CallOperation(c, ok)

\* loadUri, loadContainer and loadSingle up to their first await
StartLoad(op, identifier, ok) ==
    LET room == FoundRoom(identifier)
        c == [NoCommand EXCEPT !.op = op, !.room = room,
                               !.renderer = _getRendererForRoom(room)]
    IN IF ~room.found THEN ReturnsNothing(c)
       ELSE IF c.renderer # NoRenderer /\ CanLoad(c.renderer)
            THEN WakeThenCall(c, 1, ok)
       ELSE IF ~managersUp
            THEN LoadOn([c EXCEPT !.renderer = NoRenderer], ok)
       ELSE [c EXCEPT !.pc = "connect",
                      !.calls = Append(@, Call("connectRoomToZone", "zoneManager",
                                               room.roomUdn, "pending"))]

(***************************************************************************)
(* The state after the constructor of RaumkernelHelper                     *)
(***************************************************************************)
Init ==
    /\ mediaRenderers = <<>>
    /\ mediaRenderersVirtual = <<>>
    /\ zoneConfig = <<>>
    /\ managersUp = FALSE
    /\ _rooms = <<>>
    /\ isReady = FALSE
    /\ availableRooms = <<>>
    /\ lastZones = CombinedState(<<>>)
    /\ trace = <<>>
    /\ handedOut = NothingHeld
    /\ requests = NoRequests
    /\ integration = IntegrationSettled
    /\ cmd = NoCommand

(***************************************************************************)
(* The library changes its collections.  It does so between the turns of   *)
(* the add-on: not between a command method's return and the continuation  *)
(* of the message handler that awaits it (cmd.pc = "done").                *)
(***************************************************************************)
\* raumkernel.init() has created the managerDisposer
ManagersCreated ==
    /\ cmd.pc # "done"
    /\ ~managersUp
    /\ managersUp' = TRUE
    /\ UNCHANGED <<mediaRenderers, mediaRenderersVirtual, zoneConfig,
                   progVars, obsVars, cmd>>

MediaRendererAdded(d) ==
    /\ cmd.pc # "done"
    /\ managersUp
    /\ ~MapHas(mediaRenderers, d.udn)
    /\ mediaRenderers' = Append(mediaRenderers, d)
    /\ UNCHANGED <<mediaRenderersVirtual, zoneConfig, managersUp,
                   progVars, obsVars, cmd>>

MediaRendererRemoved(u) ==
    /\ cmd.pc # "done"
    /\ MapHas(mediaRenderers, u)
    /\ mediaRenderers' = MapDelete(mediaRenderers, u)
    /\ UNCHANGED <<mediaRenderersVirtual, zoneConfig, managersUp,
                   progVars, obsVars, cmd>>

MediaRendererVirtualAdded(v) ==
    /\ cmd.pc # "done"
    /\ managersUp
    /\ ~MapHas(mediaRenderersVirtual, v.udn)
    /\ mediaRenderersVirtual' = Append(mediaRenderersVirtual, v)
    /\ UNCHANGED <<mediaRenderers, zoneConfig, managersUp,
                   progVars, obsVars, cmd>>

MediaRendererVirtualRemoved(z) ==
    /\ cmd.pc # "done"
    /\ MapHas(mediaRenderersVirtual, z)
    /\ mediaRenderersVirtual' = MapDelete(mediaRenderersVirtual, z)
    /\ UNCHANGED <<mediaRenderers, zoneConfig, managersUp,
                   progVars, obsVars, cmd>>

ZoneConfigurationChanged(c) ==
    /\ cmd.pc # "done"
    /\ managersUp
    /\ c # zoneConfig
    /\ zoneConfig' = c
    /\ UNCHANGED <<mediaRenderers, mediaRenderersVirtual, managersUp,
                   progVars, obsVars, cmd>>

(***************************************************************************)
(* The listeners: for every event the one of RaumkernelHelper              *)
(* (_setupEventHandlers, registered by the constructor) and then the one   *)
(* of index.js, both run to completion.                                    *)
(***************************************************************************)
\* 'systemReady'
\* A listener that refreshes the registry whatever the flag says
SystemReady_always(ready) ==
    /\ cmd.pc # "done"
    /\ isReady' = ready
    /\ _rooms' = _refreshRoomRegistry(_rooms)
    /\ availableRooms' = IF managersUp
                         THEN _broadcastRoomStates(_refreshRoomRegistry(_rooms),
                                                   ready, mediaRenderers)
                         ELSE availableRooms
    /\ handedOut' = IF managersUp
                    THEN Reassigned(handedOut,
                                   _broadcastRoomStates(_refreshRoomRegistry(_rooms),
                                                        ready, mediaRenderers))
                    ELSE handedOut
    /\ UNCHANGED <<envVars, requests, integration, lastZones, trace, cmd>>

SystemReady(ready) ==
    LET refreshed == IF ready THEN _refreshRoomRegistry(_rooms) ELSE _rooms
        published == ready /\ managersUp
    IN /\ cmd.pc # "done"
       /\ isReady' = ready
       /\ _rooms' = refreshed
       /\ availableRooms' = IF published
                            THEN _broadcastRoomStates(refreshed, ready, mediaRenderers)
                            ELSE availableRooms
       /\ handedOut' = IF published
                       THEN Reassigned(handedOut,
                                      _broadcastRoomStates(refreshed, ready,
                                                           mediaRenderers))
                       ELSE handedOut
       /\ UNCHANGED <<envVars, requests, integration, lastZones, trace, cmd>>

\* A reset that leaves the published list
_resetState_keepsList ==
    [isReady |-> FALSE, availableRooms |-> availableRooms, rooms |-> <<>>]

\* _resetState(): the values it assigns
_resetState == [isReady |-> FALSE, availableRooms |-> <<>>, rooms |-> <<>>]

\* 'systemHostLost': _resetState; index.js has no listener for it
SystemHostLost ==
    /\ cmd.pc # "done"
    /\ isReady' = _resetState.isReady
    /\ availableRooms' = _resetState.availableRooms
    /\ _rooms' = _resetState.rooms
    /\ trace' = <<"reset">>
    /\ handedOut' = Released(handedOut)
    /\ UNCHANGED <<envVars, requests, integration, lastZones, cmd>>

\* A handler that publishes the snapshot of the refresh and maps afterwards
CombinedZoneStateChanged_early(data) ==
    LET refreshed == _refreshRoomRegistry(_rooms)
        mapped    == _updateZoneMappings(refreshed, data)
    IN /\ cmd.pc # "done"
       /\ _rooms' = mapped
       /\ availableRooms' = _broadcastRoomStates(refreshed, isReady, mediaRenderers)
       /\ lastZones' = data
       /\ trace' = <<"refresh", "snapshot", "send", "mappings">>
       /\ handedOut' = Remapped(Reassigned(handedOut,
                                 _broadcastRoomStates(refreshed, isReady,
                                                      mediaRenderers)),
                                mapped)
       /\ UNCHANGED <<envVars, requests, integration, isReady, cmd>>

\* 'combinedZoneStateChanged': _handleZoneStateChange(data), then the
\* broadcast of getState().availableRooms by index.js
CombinedZoneStateChanged(data) ==
    LET refreshed == _refreshRoomRegistry(_rooms)
        mapped    == _updateZoneMappings(refreshed, data)
        rooms     == _broadcastRoomStates(mapped, isReady, mediaRenderers)
    IN /\ cmd.pc # "done"
       /\ _rooms' = mapped
       /\ availableRooms' = rooms
       /\ lastZones' = data
       /\ trace' = (IF managersUp THEN <<"refresh", "snapshot">> ELSE <<>>)
                     \o <<"mappings", "snapshot", "send">>
       /\ handedOut' = Reassigned(Remapped(handedOut, mapped), rooms)
       /\ UNCHANGED <<envVars, requests, integration, isReady, cmd>>

\* The library sets rendererState.PowerState of physical renderer u to p.
SetPowerState(renderers, u, p) ==
    [i \in 1..Len(renderers) |->
        IF renderers[i].udn = u THEN [renderers[i] EXCEPT !.power = p]
        ELSE renderers[i]]

\* A helper whose listener were registered after the one of index.js: the
\* list that index.js sends is the one of the previous event
RendererStateChanged_unpublished(u, p) ==
    /\ cmd.pc # "done"
    /\ MapHas(mediaRenderers, u)
    /\ mediaRenderers' = SetPowerState(mediaRenderers, u, p)
    /\ UNCHANGED <<mediaRenderersVirtual, zoneConfig, managersUp, progVars,
                   obsVars, cmd>>

\* 'rendererStateChanged', which the library emits when it has updated the
\* rendererState of a renderer (here the power state of u, possibly to the
\* value it had): _broadcastRoomStates, then the broadcast of getState() by
\* index.js
RendererStateChanged(u, p) ==
    /\ cmd.pc # "done"
    /\ MapHas(mediaRenderers, u)
    /\ mediaRenderers' = SetPowerState(mediaRenderers, u, p)
    /\ availableRooms' = _broadcastRoomStates(_rooms, isReady,
                                              SetPowerState(mediaRenderers, u, p))
    /\ handedOut' = Reassigned(handedOut,
                              _broadcastRoomStates(_rooms, isReady,
                                                   SetPowerState(mediaRenderers, u, p)))
    /\ UNCHANGED <<mediaRenderersVirtual, zoneConfig, managersUp,
                   _rooms, isReady, lastZones, trace, requests, integration,
                   cmd>>

(***************************************************************************)
(* The message handler of index.js calls a command method                  *)
(***************************************************************************)
\* A client sends play, pause or setVolume for identifier.
PlaybackCommand(op, identifier) ==
    /\ cmd.pc = "idle"
    /\ \E ok \in BOOLEAN : cmd' = StartPlayback(op, identifier, ok)
    /\ UNCHANGED <<envVars, progVars, obsVars>>

\* A client sends loadUri, loadContainer or loadSingle for identifier.
LoadCommand(op, identifier) ==
    /\ cmd.pc = "idle"
    /\ \E ok \in BOOLEAN : cmd' = StartLoad(op, identifier, ok)
    /\ UNCHANGED <<envVars, progVars, obsVars>>

\* zoneManager.connectRoomToZone has returned or thrown: the poll loop starts.
ConnectReturns ==
    /\ cmd.pc = "connect"
    /\ \E okc, ok \in BOOLEAN : cmd' = Poll(Returned(cmd, okc), ok)
    /\ UNCHANGED <<envVars, progVars, obsVars>>

\* The timer of _delay(500) has fired: the next round of the poll loop.
DelayElapsed ==
    /\ cmd.pc = "poll"
    /\ \E ok \in BOOLEAN : cmd' = Poll(cmd, ok)
    /\ UNCHANGED <<envVars, progVars, obsVars>>

\* leaveStandby has returned or thrown: _wakeRenderer goes on.
WakeReturns ==
    /\ cmd.pc = "wake"
    /\ \E okw, ok \in BOOLEAN :
           cmd' = WakeThenCall(Returned(cmd, okw), cmd.k + 1, ok)
    /\ UNCHANGED <<envVars, progVars, obsVars>>

\* The message handler has got the result of the method (and has sent the
\* error message if the method has thrown).
CommandSettled ==
    /\ cmd.pc = "done"
    /\ cmd' = NoCommand
    /\ UNCHANGED <<envVars, progVars, obsVars>>

\* The library, as the listeners see it
Environment ==
    \/ ManagersCreated
    \/ \E d \in Devices : MediaRendererAdded(d)
    \/ \E u \in PhysIds : MediaRendererRemoved(u)

Events ==
    \/ \E ready \in BOOLEAN : SystemReady(ready)
    \/ SystemHostLost
    \/ \E data \in EventPayloads : CombinedZoneStateChanged(data)
    \/ \E p \in PowerStates : RendererStateChanged("P1", p)

Next == Environment \/ Events

Spec == Init /\ [][Next]_vars

(***************************************************************************)
(* Zone mapping (C1, C2)                                                   *)
(***************************************************************************)
Ungrouped(room) ==
    /\ room.zoneUdn = None
    /\ room.zoneMembers = <<room.roomUdn>>
    /\ room.zoneName = NoName

\* zone is flagged as a group and names the room
NamedBy(room, zone) ==
    /\ zone.isZone
    /\ \E k \in 1..Len(zone.rooms) :
           zone.rooms[k] \in {room.roomUdn, room.rendererUdn}

GroupedBy(room, zone) ==
    /\ room.zoneUdn = zone.udn
    /\ room.zoneMembers = zone.rooms
    /\ room.zoneName = zone.name

PublishedZoneFields ==
    /\ Len(availableRooms) = Len(_rooms)
    /\ \A i \in 1..Len(availableRooms) :
           \E k \in 1..Len(_rooms) :
               /\ _rooms[k].rendererUdn = availableRooms[i].rendererUdn
               /\ _rooms[k].zoneUdn = availableRooms[i].zoneUdn
               /\ _rooms[k].zoneMembers = availableRooms[i].zoneMembers
               /\ _rooms[k].zoneName = availableRooms[i].zoneName

Before(t, a, b) ==
    \A i \in 1..Len(t) : t[i] = b => \E j \in 1..(i - 1) : t[j] = a

\* C2 as stated: while a topology event is handled, no snapshot is computed
\* and nothing is sent before _updateZoneMappings has run.
C2_NoSnapshotBeforeMappings ==
    /\ Before(trace, "mappings", "snapshot")
    /\ Before(trace, "mappings", "send")

\* C2, amended: while a topology event is handled nothing is sent before
\* _updateZoneMappings has run, the snapshot that is sent is computed after
\* it, and the room list the add-on publishes carries the zone fields of the
\* registry; the snapshot _refreshRoomRegistry computes before it is replaced
\* in the same turn.
C2_NothingSentBeforeMappings ==
    /\ Before(trace, "mappings", "send")
    /\ \A i \in 1..Len(trace) :
           trace[i] = "send" =>
               \E j, k \in 1..(i - 1) :
                   j < k /\ trace[j] = "mappings" /\ trace[k] = "snapshot"
    /\ PublishedZoneFields

\* A topology event has been handled with the managers up: the refresh and
\* its snapshot came first, and the event regrouped a published room.
C2_Witness ==
    /\ Len(trace) = 5
    /\ trace[2] = "snapshot"
    /\ trace[3] = "mappings"
    /\ \E i \in 1..Len(availableRooms) : availableRooms[i].zoneUdn # None

(***************************************************************************)
(* Lifetime of the rooms (C3, C4)                                          *)
(***************************************************************************)
RegisteredIds(rooms) == { rooms[i].rendererUdn : i \in 1..Len(rooms) }
PublishedIds(rooms)  == { rooms[i].roomUdn : i \in 1..Len(rooms) }

\* C3: a step that is not the handling of systemHostLost never takes a room
\* out of the registry nor a room id out of the published list, whether
\* the room is grouped, ungrouped, or its renderer has left the library.
C3_RoomsStay ==
    [][ SystemHostLost
        \/ ( /\ RegisteredIds(_rooms) \subseteq RegisteredIds(_rooms')
             /\ PublishedIds(availableRooms) \subseteq PublishedIds(availableRooms') )
      ]_vars

\* The library has dropped the renderer of a room, events have been handled
\* since, and the room is registered and published.
C3_Witness ==
    /\ Len(trace) = 5
    /\ \E i \in 1..Len(_rooms) :
           /\ ~MapHas(mediaRenderers, _rooms[i].rendererUdn)
           /\ _rooms[i].zoneUdn # None
           /\ _rooms[i].roomUdn \in PublishedIds(availableRooms)
    /\ mediaRenderers # <<>>

\* No lookup finds a room.
NothingFound ==
    /\ \A identifier \in Identifiers : findRoom(availableRooms, identifier) = 0
    /\ \A u \in {"R1", "R2", "P1", "P2", "Z1", "Z2"} : _findRoomByAnyUdn(_rooms, u) = 0

\* C4: when systemHostLost has been handled the registry and the published
\* list are empty and isReady is false, and from then on, as long as no
\* event has registered a room again, findRoom and _findRoomByAnyUdn find
\* nothing, whatever the identifier.
C4_LostMeansNotFound ==
    /\ [][ SystemHostLost =>
               (_rooms' = <<>> /\ availableRooms' = <<>> /\ ~isReady') ]_vars
    /\ [](_rooms = <<>> => (availableRooms = <<>> /\ NothingFound))

\* systemHostLost has been handled while both renderers are in the library.
C4_Witness ==
    /\ trace = <<"reset">>
    /\ _rooms = <<>>
    /\ Len(mediaRenderers) = 2

(***************************************************************************)
(* The command methods.  The add-on is up: both renderers are discovered   *)
(* and registered, systemReady(true) has been handled.                     *)
(***************************************************************************)
InitCmd ==
    /\ mediaRenderers = << PhysicalRenderer("P1", "R1", Name_Bad, Name_Bad, "ACTIVE"),
                           PhysicalRenderer("P2", "R2", Name_bade, Name_bade, "ACTIVE") >>
    /\ mediaRenderersVirtual = <<>>
    /\ zoneConfig = <<>>
    /\ managersUp = TRUE
    /\ _rooms = _refreshRoomRegistry(<<>>)
    /\ isReady = TRUE
    /\ availableRooms = _broadcastRoomStates(_rooms, isReady, mediaRenderers)
    /\ lastZones = CombinedState(<<>>)
    /\ trace = <<>>
    /\ handedOut = NothingHeld
    /\ requests = NoRequests
    /\ integration = IntegrationSettled
    /\ cmd = NoCommand

\* The virtual renderers of the library, with the members they declare, and
\* its zone configurations.
GroupRenderers ==
    { VirtualRenderer("Z1", <<"P1", "P2">>), VirtualRenderer("Z2", <<"P2">>) }
ZoneConfigurations ==
    { <<>>,
      << ZoneDescriptor("Z1", TRUE, <<"R1", "R2">>) >>,
      << ZoneDescriptor("Z2", TRUE, <<"R1">>) >>,
      << ZoneDescriptor("Z2", TRUE, <<"R2">>) >> }

\* The identifiers the clients send with a command
CommandIdentifiers ==
    { UdnIdentifier("R1"), UdnIdentifier("R2"), UdnIdentifier("Z1"),
      TextIdentifier(<<"a", "d", "e">>) }

\* The library, as the command methods see it
Library ==
    \/ \E d \in { e \in Devices : e.udn = "P2" } : MediaRendererAdded(d)
    \/ MediaRendererRemoved("P2")
    \/ \E v \in GroupRenderers : MediaRendererVirtualAdded(v)
    \/ \E z \in ZoneIds : MediaRendererVirtualRemoved(z)
    \/ \E c \in ZoneConfigurations : ZoneConfigurationChanged(c)
    \/ CombinedZoneStateChanged(CombinedState(zoneConfig))
    \/ \E p \in PowerStates : RendererStateChanged("P1", p)

NextCmd ==
    \/ Library
    \/ \E op \in PlaybackCommands, identifier \in CommandIdentifiers :
           PlaybackCommand(op, identifier)
    \/ WakeReturns
    \/ CommandSettled

SpecCmd == InitCmd /\ [][NextCmd]_vars

\* The library, as the load methods and _ensureVirtualRenderer see it: the
\* zones, their virtual renderers and the power state they read.
LoadLibrary ==
    \/ \E v \in GroupRenderers : MediaRendererVirtualAdded(v)
    \/ \E z \in ZoneIds : MediaRendererVirtualRemoved(z)
    \/ \E c \in ZoneConfigurations : ZoneConfigurationChanged(c)
    \/ \E p \in PowerStates : RendererStateChanged("P1", p)

LoadIdentifiers == { UdnIdentifier("R1"), UdnIdentifier("R2"), UdnIdentifier("Z1") }

NextLoad ==
    \/ LoadLibrary
    \/ \E op \in LoadCommands, identifier \in LoadIdentifiers :
           LoadCommand(op, identifier)
    \/ ConnectReturns
    \/ DelayElapsed
    \/ WakeReturns
    \/ CommandSettled

SpecLoad == InitCmd /\ [][NextLoad]_vars

(***************************************************************************)
(* Renderer resolution (C5, C6, C7)                                        *)
(***************************************************************************)
LastCall(c) == c.calls[Len(c.calls)]

\* pause or setVolume has just run: it has no await before its call, so the
\* library is as the method found it.
Resolved == cmd.pc = "done" /\ cmd.op \in {"pause", "setVolume"}

\* The rooms a command can hold: the published ones and no room
KnownRooms == { RoomOf(availableRooms[i]) : i \in 1..Len(availableRooms) } \cup {NoRoom}

\* The live zone id L of the room has a virtual renderer and the cached zone
\* id is another one.
StaleCache(room) ==
    /\ room.found
    /\ managersUp
    /\ getZoneUDNFromRoomUDN(room.roomUdn) # None
    /\ MapHas(mediaRenderersVirtual, getZoneUDNFromRoomUDN(room.roomUdn))
    /\ room.zoneUdn # None
    /\ room.zoneUdn # getZoneUDNFromRoomUDN(room.roomUdn)

\* C5: for a room whose live zone id L has a virtual renderer and whose
\* cached zone id is a different id C, _getRendererForRoom answers the
\* virtual renderer of L, whether or not C has a virtual renderer; a command
\* for such a room calls that renderer.
C5_LiveZoneWins ==
    /\ \A room \in KnownRooms :
           StaleCache(room) =>
               /\ _getRendererForRoom(room).kind = "virtual"
               /\ _getRendererForRoom(room).udn = getZoneUDNFromRoomUDN(room.roomUdn)
    /\ (Resolved /\ StaleCache(cmd.room)) =>
           /\ LastCall(cmd).kind = "virtual"
           /\ LastCall(cmd).udn = getZoneUDNFromRoomUDN(cmd.room.roomUdn)

\* pause or setVolume has run for a room that is cached in Z1 and lives in
\* Z2, both zones have a virtual renderer, and the call went to that of Z2.
C5_Witness ==
    /\ Resolved
    /\ cmd.calls # <<>>
    /\ cmd.room.zoneUdn = "Z1"
    /\ getZoneUDNFromRoomUDN(cmd.room.roomUdn) = "Z2"
    /\ MapHas(mediaRenderersVirtual, "Z1")
    /\ MapHas(mediaRenderersVirtual, "Z2")
    /\ LastCall(cmd).udn = "Z2"

\* The zone id the resolution looks up: the live one, the cached one only
\* when there is no live one
ZoneKey(room) ==
    IF getZoneUDNFromRoomUDN(room.roomUdn) # None
    THEN getZoneUDNFromRoomUDN(room.roomUdn)
    ELSE room.zoneUdn

\* The virtual renderers that declare rendererUdn as a member
Listing(rendererUdn) ==
    { i \in 1..Len(mediaRenderersVirtual) :
        \E k \in 1..Len(mediaRenderersVirtual[i].members) :
            mediaRenderersVirtual[i].members[k] = rendererUdn }

\* r is what the priority chain yields for room
Chain(room, r) ==
    IF ~room.found \/ ~managersUp THEN r = NoRenderer
    ELSE IF ZoneKey(room) # None /\ MapHas(mediaRenderersVirtual, ZoneKey(room))
         THEN r.kind = "virtual" /\ r.udn = ZoneKey(room)
    ELSE IF Listing(room.rendererUdn) # {}
         THEN /\ r.kind = "virtual"
              /\ \E i \in Listing(room.rendererUdn) :
                     r.udn = mediaRenderersVirtual[i].udn
    ELSE IF MapHas(mediaRenderers, room.rendererUdn)
         THEN r.kind = "physical" /\ r.udn = room.rendererUdn
    ELSE r = NoRenderer

\* C6: _getRendererForRoom answers the first that exists of (1) the virtual
\* renderer of the live zone id of the room, or of the cached zone id when
\* there is no live one, (2) a virtual renderer that declares the renderer
\* of the room as a member, (3) the physical renderer of the room; nothing
\* only if none of them exists, the room is missing or there is no device
\* manager.  pause and setVolume hold exactly that renderer.
C6_PriorityChain ==
    /\ \A room \in KnownRooms : Chain(room, _getRendererForRoom(room))
    /\ Resolved => Chain(cmd.room, cmd.renderer)

\* pause or setVolume has run for a room whose zone id has no virtual
\* renderer, and the call went to a virtual renderer that lists the room's
\* renderer.
C6_Witness ==
    /\ Resolved
    /\ cmd.room.found
    /\ ZoneKey(cmd.room) # None
    /\ ~MapHas(mediaRenderersVirtual, ZoneKey(cmd.room))
    /\ cmd.calls # <<>>
    /\ LastCall(cmd).kind = "virtual"

\* play, pause or setVolume is done and has called the library.
PlaybackDone ==
    cmd.pc = "done" /\ cmd.op \in PlaybackCommands /\ cmd.calls # <<>>

C8_IncapableReportsFailure ==
    (cmd.pc = "done" /\ cmd.op \in LoadCommands /\ cmd.logged) =>
        cmd.result = "rejected"

\* Timers fire and the calls of the library return.
SpecLoadFair ==
    /\ SpecLoad
    /\ WF_vars(ConnectReturns)
    /\ WF_vars(DelayElapsed)

\* _ensureVirtualRenderer is running.
Ensuring == cmd.pc \in {"connect", "poll"}

\* The live zone id of the room exists and has a virtual renderer.
LiveVirtual(room) ==
    /\ getZoneUDNFromRoomUDN(room.roomUdn) # None
    /\ MapHas(mediaRenderersVirtual, getZoneUDNFromRoomUDN(room.roomUdn))

\* One round of the poll loop: a step of the command while it is in
\* _ensureVirtualRenderer
PollRound ==
    /\ cmd'.checks = cmd.checks + 1
    /\ IF LiveVirtual(cmd.room)
       THEN /\ ~Ensuring'
            /\ cmd'.waits = cmd.waits
            /\ cmd'.renderer.kind = "virtual"
            /\ cmd'.renderer.udn = getZoneUDNFromRoomUDN(cmd.room.roomUdn)
       ELSE IF cmd.checks + 1 < 15
            THEN /\ cmd'.pc = "poll"
                 /\ cmd'.waits = cmd.waits + 1
            ELSE /\ ~Ensuring'
                 /\ cmd'.waits = cmd.waits
                 /\ IF Listing(cmd.room.rendererUdn) # {}
                    THEN /\ cmd'.renderer.kind = "virtual"
                         /\ \E i \in Listing(cmd.room.rendererUdn) :
                                cmd'.renderer.udn = mediaRenderersVirtual[i].udn
                    ELSE IF MapHas(mediaRenderers, cmd.room.rendererUdn)
                         THEN /\ cmd'.renderer.kind = "physical"
                              /\ cmd'.renderer.udn = cmd.room.rendererUdn
                         ELSE cmd'.renderer = NoRenderer

\* C9: _ensureVirtualRenderer makes at most 15 zone lookups with at most 14
\* waits between them; the lookup at which the live zone id exists and has a
\* virtual renderer ends it with that renderer; after the 15th it ends with
\* a virtual renderer that lists the renderer of the room, else with the
\* physical renderer of the room; and it always ends, whatever the library
\* does meanwhile and whether connectRoomToZone has failed or not.
C9_EnsureTerminates ==
    /\ [](/\ cmd.checks <= 15
          /\ cmd.waits <= 14
          /\ cmd.pc = "connect" => cmd.checks = 0
          /\ cmd.pc = "poll" => (cmd.waits = cmd.checks /\ cmd.checks >= 1))
    /\ [][ (Ensuring /\ cmd' # cmd) => PollRound ]_vars
    /\ (Ensuring ~> ~Ensuring)

\* connectRoomToZone has failed, the 15 lookups have found no zone, and the
\* load method is done with the physical renderer of the room.
C9_Witness ==
    /\ cmd.pc = "done"
    /\ cmd.op \in LoadCommands
    /\ cmd.checks = 15
    /\ cmd.waits = 14
    /\ cmd.calls # <<>>
    /\ cmd.calls[1].method = "connectRoomToZone"
    /\ cmd.calls[1].outcome = "failed"
    /\ cmd.renderer.kind = "physical"

(***************************************************************************)
(* Wake before play (C10)                                                  *)
(***************************************************************************)
\* play for room R1 is done, with a renderer, and P1 is in standby.  P1 is
\* the only renderer that play wakes for R1 here, so if play has not waited
\* for P1 it has not waited at all, and P1 was in standby when play started.
PlayedAsleep ==
    /\ cmd.pc = "done"
    /\ cmd.op = "play"
    /\ cmd.room.roomUdn = "R1"
    /\ cmd.renderer # NoRenderer
    /\ InStandby("P1")

\* play has called leaveStandby of P1 before it called play.
WokeFirst ==
    \E i \in 1..(Len(cmd.calls) - 1) :
        /\ cmd.calls[i].method = "leaveStandby"
        /\ cmd.calls[i].udn = "P1"
        /\ LastCall(cmd).method = "play"

\* The renderer is P1 or a virtual renderer that lists P1.
Covers(renderer, u) ==
    \/ renderer.kind = "physical" /\ renderer.udn = u
    \/ renderer.kind = "virtual"
         /\ \E k \in 1..Len(renderer.members) : renderer.members[k] = u

\* C10 as stated: play(R1) with P1 in standby calls leaveStandby before play.
C10_WakeBeforePlay == PlayedAsleep => WokeFirst

\* C10, amended: play(R1) with P1 in standby calls leaveStandby of P1 before
\* play when the renderer it resolved for R1 is P1 or a virtual renderer that
\* lists P1 (_wakeRenderer wakes the members of the resolved renderer, and a
\* virtual renderer found through a zone id need not list P1); and whenever
\* play has resolved a renderer it calls play on it, as its last call, also
\* after a leaveStandby that failed.
C10_WakeMembersBeforePlay ==
    /\ (PlayedAsleep /\ Covers(cmd.renderer, "P1")) => WokeFirst
    /\ (cmd.pc = "done" /\ cmd.op = "play" /\ cmd.renderer # NoRenderer) =>
           /\ LastCall(cmd).method = "play"
           /\ \A i \in 1..(Len(cmd.calls) - 1) :
                  cmd.calls[i].method = "leaveStandby"
    /\ (cmd.op = "play" /\ cmd.pc = "wake") =>
           /\ LastCall(cmd).method = "leaveStandby"
           /\ LastCall(cmd).outcome = "pending"
           /\ \A i \in 1..Len(cmd.calls) : cmd.calls[i].method # "play"

\* play(R1) has resolved P1 itself, has called leaveStandby, which failed,
\* and has called play after it.
C10_Witness ==
    /\ cmd.pc = "done"
    /\ cmd.op = "play"
    /\ cmd.room.roomUdn = "R1"
    /\ cmd.renderer.kind = "physical"
    /\ Len(cmd.calls) = 2
    /\ cmd.calls[1].method = "leaveStandby"
    /\ cmd.calls[1].udn = "P1"
    /\ cmd.calls[1].outcome = "failed"
    /\ cmd.calls[2].method = "play"

(***************************************************************************)
(* The other commands of the message handler: stop, next, prev, setMute,   *)
(* joinGroup and leaveGroup.  pc = "stop" is a stop that waits for         *)
(* renderer.stop(), pc = "terminated" the process after an unhandled       *)
(* rejection has ended it.                                                 *)
(***************************************************************************)
TransportCommands == {"stop", "next", "prev", "setMute"}
GroupCommands     == {"joinGroup", "leaveGroup"}

\* What renderer.stop() settles with: it resolves, or it rejects with an
\* error whose errorCode is '701', with one whose message holds '701', or
\* with another error.
StopOutcomes == {"ok", "errorCode 701", "message 701", "failed"}

\* err.errorCode === '701'
errorCode701(outcome) == outcome = "errorCode 701"
\* err.message?.includes('701')
messageIncludes701(outcome) == outcome = "message 701"

\* The call the command waits for has settled with outcome.
ReturnedWith(c, outcome) ==
    [c EXCEPT !.calls = [@ EXCEPT ![Len(@)] = [@ EXCEPT !.outcome = outcome]]]

\* A prev that awaits its first call
PrevTwice_awaiting(c, ok1, ok) ==
    LET first == [c EXCEPT !.calls = Append(@, Call("prev", c.renderer.kind,
                                                    c.renderer.udn, Outcome(ok1)))]
    IN IF ok1 THEN CallOperation(first, ok)
       ELSE [first EXCEPT !.pc = "done", !.result = "rejected"]

\* prev: renderer.prev(); return renderer.prev();  The promise of the first
\* call is dropped, the one of the second call is the result of the method.
PrevTwice(c, ok1, ok) ==
    CallOperation([c EXCEPT !.calls = Append(@, Call("prev", c.renderer.kind,
                                                     c.renderer.udn, Outcome(ok1)))],
                  ok)

\* A stop that throws what renderer.stop() has thrown
StopReturned_rethrow(c, outcome, okp) ==
    [ReturnedWith(c, outcome) EXCEPT
        !.pc = "done",
        !.result = IF outcome = "ok" THEN "resolved" ELSE "rejected"]

\* A stop that swallows every error of renderer.stop() without a pause
StopReturned_noFallback(c, outcome, okp) ==
    [ReturnedWith(c, outcome) EXCEPT !.pc = "done", !.result = "resolved"]

\* stop, once renderer.stop() has settled with outcome: the catch clause,
\* the pause it tries (which settles as okp says) and the warning it logs.
StopReturned(c, outcome, okp) ==
    LET r == ReturnedWith(c, outcome)
    IN IF outcome = "ok" THEN [r EXCEPT !.pc = "done", !.result = "resolved"]
       ELSE IF errorCode701(outcome) \/ messageIncludes701(outcome)
            THEN [r EXCEPT !.pc = "done", !.result = "resolved"]
       ELSE [r EXCEPT !.pc = "done",
                      !.calls = Append(@, Call("pause", c.renderer.kind,
                                               c.renderer.udn, Outcome(okp))),
                      !.logged = ~okp,
                      !.result = "resolved"]

\* stop, next, prev and setMute up to their first await
StartTransport(op, identifier, ok1, ok) ==
    LET room == FoundRoom(identifier)
        c == [NoCommand EXCEPT !.op = op, !.room = room,
                               !.renderer = _getRendererForRoom(room)]
    IN IF c.renderer = NoRenderer THEN ReturnsNothing(c)
       ELSE IF op = "stop"
            THEN [c EXCEPT !.pc = "stop",
                           !.calls = Append(@, Call("stop", c.renderer.kind,
                                                    c.renderer.udn, "pending"))]
       ELSE IF op = "prev" THEN PrevTwice(c, ok1, ok)
       ELSE CallOperation(c, ok)

\* A client sends stop, next, prev or setMute for identifier.
TransportCommand(op, identifier) ==
    /\ cmd.pc = "idle"
    /\ \E ok1, ok \in BOOLEAN : cmd' = StartTransport(op, identifier, ok1, ok)
    /\ UNCHANGED <<envVars, progVars, obsVars>>

\* renderer.stop() has resolved or rejected.
StopReturns ==
    /\ cmd.pc = "stop"
    /\ \E outcome \in StopOutcomes, okp \in BOOLEAN :
           cmd' = StopReturned(cmd, outcome, okp)
    /\ UNCHANGED <<envVars, progVars, obsVars>>

\* A client sends joinGroup or leaveGroup: the message handler calls
\* rkHelper.joinGroup / rkHelper.leaveGroup, which RaumkernelHelper does not
\* define, so the call throws a TypeError inside the try block.
GroupCommand(op, identifier) ==
    /\ cmd.pc = "idle"
    /\ cmd' = [NoCommand EXCEPT !.op = op, !.pc = "done", !.result = "rejected"]
    /\ UNCHANGED <<envVars, progVars, obsVars>>

\* The promise of a call that the method has dropped was rejected.
DroppedRejection(c) ==
    /\ c.op = "prev"
    /\ Len(c.calls) = 2
    /\ c.calls[1].outcome = "failed"

\* Nothing handles the rejected promise of the first renderer.prev(): the
\* runtime raises an unhandled rejection, and where it treats that as an
\* uncaught exception the process ends.  Where it only warns, the message
\* handler goes on (CommandSettled).
UnhandledRejection ==
    /\ cmd.pc = "done"
    /\ DroppedRejection(cmd)
    /\ cmd' = [cmd EXCEPT !.pc = "terminated"]
    /\ UNCHANGED <<envVars, progVars, obsVars>>

\* The identifiers sent with these commands: rooms, a zone, a name that one
\* room has, and identifiers that find no room.
TransportIdentifiers ==
    { UdnIdentifier("R1"), UdnIdentifier("R2"), UdnIdentifier("Z1"),
      UdnIdentifier("P1"), TextIdentifier(<<"a", "d", "e">>),
      TextIdentifier(<<"B", "A", "D">>) }

\* The library, as these commands see it
TransportLibrary ==
    \/ \E d \in { e \in Devices : e.udn = "P2" } : MediaRendererAdded(d)
    \/ MediaRendererRemoved("P2")
    \/ \E v \in GroupRenderers : MediaRendererVirtualAdded(v)
    \/ \E z \in ZoneIds : MediaRendererVirtualRemoved(z)
    \/ \E c \in ZoneConfigurations : ZoneConfigurationChanged(c)
    \/ CombinedZoneStateChanged(CombinedState(zoneConfig))

\* A process that has ended takes no step.
NextTransport ==
    /\ cmd.pc # "terminated"
    /\ \/ TransportLibrary
       \/ \E op \in TransportCommands, identifier \in TransportIdentifiers :
              TransportCommand(op, identifier)
       \/ \E op \in GroupCommands, identifier \in TransportIdentifiers :
              GroupCommand(op, identifier)
       \/ StopReturns
       \/ UnhandledRejection
       \/ CommandSettled

SpecTransport == InitCmd /\ [][NextTransport]_vars

(***************************************************************************)
(* Errors of commands (C11, C12)                                           *)
(***************************************************************************)
\* C11 as stated: no error raised while a client command is handled ends
\* the processing of commands and broadcasts, and the failure of every call
\* the handler has started and not handled itself reaches the client as an
\* error notification (the method is rejected, so the catch clause of the
\* message handler sends the error).
C11_NoErrorEndsProcessing ==
    /\ cmd.pc # "terminated"
    /\ (cmd.pc = "done" /\ DroppedRejection(cmd)) => cmd.result = "rejected"

\* The command has found no room, or no renderer for its room.
NotFound(c) == ~c.room.found \/ c.renderer = NoRenderer

\* C12 as stated: a command whose identifier resolves to no room, or whose
\* room resolves to no renderer, is reported to its caller as a failure:
\* the method is rejected and the client gets an error notification.
C12_NotFoundIsReported ==
    (cmd.pc = "done" /\ cmd.op \in TransportCommands /\ NotFound(cmd)) =>
        cmd.result = "rejected"

(***************************************************************************)
(* prev and stop (C13, C14, C15)                                           *)
(***************************************************************************)
OnRenderer(call, renderer) ==
    call.kind = renderer.kind /\ call.udn = renderer.udn

\* C13: prev, whenever it has resolved a renderer for the room, makes
\* exactly two prev calls on that renderer, whatever the first call comes
\* to; without a renderer it makes no call.
C13_PrevCallsTwice ==
    (cmd.op = "prev" /\ cmd.pc \in {"done", "terminated"}) =>
        IF cmd.renderer = NoRenderer THEN cmd.calls = <<>>
        ELSE /\ cmd.renderer = _getRendererForRoom(cmd.room)
             /\ Len(cmd.calls) = 2
             /\ \A i \in 1..2 : /\ cmd.calls[i].method = "prev"
                                /\ OnRenderer(cmd.calls[i], cmd.renderer)

\* prev has made its second call after a first call that fails.
C13_Witness ==
    /\ cmd.op = "prev"
    /\ cmd.pc = "done"
    /\ Len(cmd.calls) = 2
    /\ cmd.calls[1].outcome = "failed"
    /\ cmd.calls[2].method = "prev"

\* renderer.stop() has failed with 'transition not available' (701).
StopFailed701(c) ==
    /\ c.op = "stop"
    /\ c.pc = "done"
    /\ c.calls # <<>>
    /\ c.calls[1].method = "stop"
    /\ c.calls[1].outcome \in {"errorCode 701", "message 701"}

\* renderer.stop() has failed with another error.
StopFailedOtherwise(c) ==
    /\ c.op = "stop"
    /\ c.pc = "done"
    /\ c.calls # <<>>
    /\ c.calls[1].method = "stop"
    /\ c.calls[1].outcome = "failed"

\* C14: stop does not pass a 'transition not available' (701) failure of
\* renderer.stop() on to its caller: it resolves, logs nothing, and the
\* client gets no error notification.
C14_StopSwallows701 ==
    StopFailed701(cmd) => (cmd.result = "resolved" /\ ~cmd.logged)

\* stop has resolved after renderer.stop() failed with a 701 that only the
\* message of the error shows.
C14_Witness ==
    /\ StopFailed701(cmd)
    /\ cmd.calls[1].outcome = "message 701"
    /\ cmd.result = "resolved"

\* C15: when renderer.stop() fails with another error than 'transition not
\* available', stop makes exactly one pause call on the same renderer and
\* resolves whatever that call comes to; when the error is 'transition not
\* available' it makes no pause call.
C15_PauseInsteadOfStop ==
    /\ StopFailedOtherwise(cmd) =>
           /\ Len(cmd.calls) = 2
           /\ cmd.calls[2].method = "pause"
           /\ OnRenderer(cmd.calls[1], cmd.renderer)
           /\ OnRenderer(cmd.calls[2], cmd.renderer)
           /\ cmd.result = "resolved"
    /\ StopFailed701(cmd) => Len(cmd.calls) = 1

\* stop has resolved after renderer.stop() and the pause have both failed.
C15_Witness ==
    /\ StopFailedOtherwise(cmd)
    /\ Len(cmd.calls) = 2
    /\ cmd.calls[2].method = "pause"
    /\ cmd.calls[2].outcome = "failed"
    /\ cmd.result = "resolved"

(***************************************************************************)
(* Registry and reconciler on their own: renderers come and go, also with  *)
(* accessors that answer nothing yet, and the topology events name rooms   *)
(* by room UDN and by renderer UDN, rooms the registry does not have, and  *)
(* one room in two groups.                                                 *)
(***************************************************************************)
RegistryDevices ==
    { PhysicalRenderer("P1", "R1", Name_Bad, Name_Bad, "ACTIVE"),
      PhysicalRenderer("P1", None, NoName, NoName, "ACTIVE"),
      PhysicalRenderer("P2", "R2", Name_bade, Name_bade, "ACTIVE") }

TopologyDescriptors ==
    { ZoneDescriptor("Z1", TRUE, <<"R1", "R2">>),
      ZoneDescriptor("Z1", TRUE, <<"P1">>),
      ZoneDescriptor("Z2", TRUE, <<"R2", "R3">>),
      ZoneDescriptor("Z1", FALSE, <<"R1", "R2">>) }

\* Zone lists of at most MaxZones descriptors of different zones
TopologyLists ==
    { t \in UNION { [1..n -> TopologyDescriptors] : n \in 0..MaxZones } :
        \A i, j \in 1..Len(t) : i # j => t[i].udn # t[j].udn }

TopologyPayloads == { CombinedState(t) : t \in TopologyLists }

NextRegistry ==
    \/ ManagersCreated
    \/ \E d \in RegistryDevices : MediaRendererAdded(d)
    \/ \E u \in PhysIds : MediaRendererRemoved(u)
    \/ \E ready \in BOOLEAN : SystemReady(ready)
    \/ SystemHostLost
    \/ \E data \in TopologyPayloads : CombinedZoneStateChanged(data)

SpecRegistry == Init /\ [][NextRegistry]_vars

(***************************************************************************)
(* Reconciliation of one event (C16)                                       *)
(***************************************************************************)
\* The group-flagged descriptors of zones that name the room
GroupsNaming(rooms, zones, i) ==
    { j \in 1..Len(zones) :
        /\ zones[j].isZone
        /\ \E k \in 1..Len(zones[j].rooms) :
               _findRoomByAnyUdn(rooms, zones[j].rooms[k]) = i }

\* Reconciled: every room that a group-flagged descriptor names carries the
\* id, the name and the member list, in the order received, of that
\* descriptor, and every room that no group-flagged descriptor names is
\* ungrouped.
Reconciled(rooms, zones) ==
    \A i \in 1..Len(rooms) :
        LET g == GroupsNaming(rooms, zones, i)
        IN /\ \A j \in g : GroupedBy(rooms[i], zones[j])
           /\ g = {} => Ungrouped(rooms[i])

AtMostOneGroupEach(rooms, zones) ==
    \A i \in 1..Len(rooms) : Cardinality(GroupsNaming(rooms, zones, i)) <= 1

Scenario == CombinedState(<< ZoneDescriptor("Z1", TRUE, <<"R1", "R2">>) >>)

RoomOfRegistry(rooms, roomUdn) ==
    { i \in 1..Len(rooms) : rooms[i].roomUdn = roomUdn }

\* C16: the handling of a topology event in which every room is named by at
\* most one group-flagged descriptor leaves the registry reconciled with
\* it; descriptors that are not flagged as a group change nothing.  In the
\* scenario (R1 and R2 ungrouped, the event is the group Z1 of R1 and R2)
\* both rooms end with zone id Z1 and the member list <<R1, R2>>.
C16_EventReconciles ==
    [][ CombinedZoneStateChanged(lastZones') =>
          /\ AtMostOneGroupEach(_rooms', lastZones'.zones) =>
                 Reconciled(_rooms', lastZones'.zones)
          /\ ( /\ lastZones' = Scenario
               /\ \A i \in 1..Len(_rooms) : Ungrouped(_rooms[i]) ) =>
                 \A i \in 1..Len(_rooms') :
                     _rooms'[i].roomUdn \in {"R1", "R2"} =>
                         /\ _rooms'[i].zoneUdn = "Z1"
                         /\ _rooms'[i].zoneMembers = <<"R1", "R2">>
      ]_vars

\* The scenario has been handled with R1 and R2 registered: both are in Z1.
C16_Witness ==
    /\ lastZones = Scenario
    /\ trace # <<>> /\ trace[Len(trace)] = "send"
    /\ RoomOfRegistry(_rooms, "R1") # {}
    /\ RoomOfRegistry(_rooms, "R2") # {}
    /\ \A i \in 1..Len(_rooms) :
           _rooms[i].zoneUdn = "Z1" /\ _rooms[i].zoneMembers = <<"R1", "R2">>

(***************************************************************************)
(* One room per renderer (C17)                                             *)
(***************************************************************************)
RendererIds(renderers) == { renderers[i].udn : i \in 1..Len(renderers) }

Identity(room) == <<room.rendererUdn, room.roomUdn, room.name>>

\* A listener that calls _refreshRoomRegistry takes the step.
Refreshes ==
    \/ SystemReady(TRUE)
    \/ CombinedZoneStateChanged(lastZones')

\* C17: the registry holds one room per renderer UDN; _refreshRoomRegistry
\* is idempotent and leaves the registry alone when it knows every renderer
\* of the library; a step that is not a reset keeps every entry in its place
\* with its rendererUdn, roomUdn and name, and the registered renderer UDNs
\* after it are those before it together with, if the step refreshes the
\* registry, the renderers the library has then: so the registry holds
\* exactly the renderers sighted since the last reset.
C17_OneRoomPerRenderer ==
    /\ [](\A i, j \in 1..Len(_rooms) :
              _rooms[i].rendererUdn = _rooms[j].rendererUdn => i = j)
    /\ [](_refreshRoomRegistry(_refreshRoomRegistry(_rooms))
              = _refreshRoomRegistry(_rooms))
    /\ [](RendererIds(mediaRenderers) \subseteq RegisteredIds(_rooms) =>
              _refreshRoomRegistry(_rooms) = _rooms)
    /\ [][ IF SystemHostLost THEN _rooms' = <<>>
           ELSE /\ Len(_rooms') >= Len(_rooms)
                /\ \A i \in 1..Len(_rooms) :
                       Identity(_rooms'[i]) = Identity(_rooms[i])
                /\ RegisteredIds(_rooms') =
                       RegisteredIds(_rooms) \cup
                       (IF Refreshes /\ managersUp
                        THEN RendererIds(mediaRenderers) ELSE {})
         ]_vars

\* P1 is registered as room R1 with its name, and meanwhile the library has
\* P1 as a renderer whose accessors answer nothing; the registry has been
\* refreshed in that state.
C17_Witness ==
    /\ \E i \in 1..Len(_rooms) :
           Identity(_rooms[i]) = <<"P1", "R1", Name_Bad>>
    /\ \E k \in 1..Len(mediaRenderers) :
           mediaRenderers[k] = PhysicalRenderer("P1", None, NoName, NoName, "ACTIVE")
    /\ trace # <<>> /\ trace[1] = "refresh"
    /\ RendererIds(mediaRenderers) \subseteq RegisteredIds(_rooms)

(***************************************************************************)
(* Lookup by name (C18)                                                    *)
(***************************************************************************)
\* The letters of s in upper case
Upper(s) ==
    [i \in 1..Len(s) |->
        IF \E k \in 1..Len(LowerChars) : LowerChars[k] = s[i]
        THEN UpperChars[CHOOSE k \in 1..Len(LowerChars) : LowerChars[k] = s[i]]
        ELSE s[i]]

Substrings(s) == { SubSeq(s, i, j) : i \in 1..Len(s), j \in 1..Len(s) } \ { <<>> }

\* Every substring of the names 'Bad' and 'bade', as it stands, in lower
\* case and in upper case
NameIdentifiers ==
    UNION { { TextIdentifier(t), TextIdentifier(toLowerCase(t)),
              TextIdentifier(Upper(t)) } :
            t \in Substrings(Name_Bad) \cup Substrings(Name_bade) }

\* The rooms whose name contains the text, whatever the case of the letters
Matching(rooms, t) ==
    { i \in 1..Len(rooms) : Upper(t) \in Substrings(Upper(rooms[i].name)) }

\* C18 as stated: for every identifier that is a substring of a name,
\* findRoom finds nothing when the names of two or more rooms contain it
\* and finds the room when the name of exactly one room contains it,
\* whatever the case of the letters.
C18_SubstringLookup ==
    \A id \in NameIdentifiers :
        LET m == Matching(availableRooms, id.text)
        IN /\ Cardinality(m) >= 2 => findRoom(availableRooms, id) = 0
           /\ Cardinality(m) = 1 => findRoom(availableRooms, id) \in m

\* C18, amended: that holds for the identifiers of more than two
\* characters (that are not the room UDN or zone UDN of a published room);
\* an identifier of one or two characters is not looked up by name and
\* finds nothing.
C18_LongSubstringLookup ==
    \A id \in NameIdentifiers :
        LET m == Matching(availableRooms, id.text)
        IN IF Len(id.text) > 2
           THEN /\ Cardinality(m) >= 2 => findRoom(availableRooms, id) = 0
                /\ Cardinality(m) = 1 => findRoom(availableRooms, id) \in m
                /\ m = {} => findRoom(availableRooms, id) = 0
           ELSE findRoom(availableRooms, id) = 0

\* 'Bad' and 'bade' are published: 'BAD' is in both names and finds nothing,
\* 'ADE' is in one and finds it, 'de' is in one and finds nothing.
C18_Witness ==
    /\ Len(availableRooms) = 2
    /\ Cardinality(Matching(availableRooms, <<"B", "A", "D">>)) = 2
    /\ findRoom(availableRooms, TextIdentifier(<<"B", "A", "D">>)) = 0
    /\ Matching(availableRooms, <<"A", "D", "E">>)
           = { findRoom(availableRooms, TextIdentifier(<<"A", "D", "E">>)) }
    /\ Cardinality(Matching(availableRooms, <<"d", "e">>)) = 1
    /\ findRoom(availableRooms, TextIdentifier(<<"d", "e">>)) = 0

(***************************************************************************)
(* Commands sent with a zone id (C19)                                      *)
(***************************************************************************)
ZoneIdentifiers == { UdnIdentifier(z) : z \in ZoneIds }

\* The clients send pause and setVolume with zone ids only.
NextZoneId ==
    \/ Library
    \/ \E op \in {"pause", "setVolume"}, identifier \in ZoneIdentifiers :
           PlaybackCommand(op, identifier)
    \/ CommandSettled

SpecZoneId == InitCmd /\ [][NextZoneId]_vars

\* The published rooms with that room UDN, and with that zone UDN
ByRoomUdn(u) == { i \in 1..Len(availableRooms) : availableRooms[i].roomUdn = u }
ByZoneUdn(u) == { i \in 1..Len(availableRooms) : availableRooms[i].zoneUdn = u }

\* findRoom takes a room UDN first, then a zone UDN, then a name that one
\* room has; a zone UDN that a published room carries finds the first such
\* room, and that room is one of the members the zone was published with.
LookupPriority ==
    /\ \A id \in Identifiers \cup CommandIdentifiers :
           LET i == findRoom(availableRooms, id)
           IN IF ByRoomUdn(id.udn) # {} THEN i = FirstIndex(ByRoomUdn(id.udn))
              ELSE IF ByZoneUdn(id.udn) # {} THEN i = FirstIndex(ByZoneUdn(id.udn))
              ELSE i = 0 \/ ( /\ Len(id.text) > 2
                              /\ Matching(availableRooms, id.text) = {i} )
    /\ \A z \in ZoneIds :
           ByZoneUdn(z) # {} =>
               LET room == availableRooms[findRoom(availableRooms, UdnIdentifier(z))]
               IN /\ room.zoneUdn = z
                  /\ \E k \in 1..Len(room.zoneMembers) :
                         room.zoneMembers[k] \in {room.roomUdn, room.rendererUdn}

\* A command that was sent with a zone id has found a room and is done.
SentToZone == cmd.pc = "done" /\ cmd.room.found

C20_GroupCommandsDelegate ==
    (cmd.pc = "done" /\ cmd.op \in GroupCommands) =>
        /\ cmd.calls # <<>>
        /\ \A i \in 1..Len(cmd.calls) :
               /\ cmd.calls[i].kind = "zoneManager"
               /\ cmd.calls[i].udn \in PublishedIds(availableRooms)
               /\ cmd.calls[i].udn \notin RegisteredIds(_rooms)

(***************************************************************************)
(* What the listeners publish (C21)                                        *)
(***************************************************************************)
\* entry is what a snapshot taken now publishes for room: the fields of the
\* registry, and the power state of its physical renderer when the system is
\* ready and the room has an endpoint
FreshEntry(entry, room, ready, renderers) ==
    LET live == /\ ready
                /\ managersUp
                /\ \/ room.zoneUdn # None /\ MapHas(mediaRenderersVirtual, room.zoneUdn)
                   \/ MapHas(renderers, room.rendererUdn)
    IN /\ entry.name = room.name
       /\ entry.roomUdn = room.roomUdn
       /\ entry.rendererUdn = room.rendererUdn
       /\ entry.zoneUdn = room.zoneUdn
       /\ entry.zoneName = room.zoneName
       /\ entry.zoneMembers = room.zoneMembers
       /\ entry.nowPlaying.empty = ~live
       /\ entry.nowPlaying.powerState =
              IF ~live THEN "STANDBY"
              ELSE IF MapHas(renderers, room.rendererUdn)
                   THEN MapGet(renderers, room.rendererUdn).power
                   ELSE "ACTIVE"

\* list is the registry rooms, each with its fresh entry, in name order
FreshList(list, rooms, ready, renderers) ==
    /\ Len(list) = Len(rooms)
    /\ \A i \in 1..Len(rooms) :
           \E j \in 1..Len(list) : FreshEntry(list[j], rooms[i], ready, renderers)
    /\ \A i, j \in 1..Len(list) :
           i < j => ~localeLess(list[j].name, list[i].name)

TransportStates == {"PLAYING", "TRANSITIONING"}
TransportActions ==
    { {}, {"Play", "Pause"}, {"Play", "Next"}, {"Play", "Previous"},
      {"Play", "Pause", "Next", "Previous"} }
MusicTrack == <<"object", "item", "audioItem", "musicTrack">>
RadioStation == <<"object", "item", "audioItem", "audioBroadcast", "radio">>
MusicAlbum == <<"object", "container", "album", "musicAlbum">>
RadioContainer == <<"object", "container", "playlistContainer", "radio">>
MediaClasses == {MusicTrack, RadioStation, MusicAlbum, RadioContainer}
MaxTracks == 2
MediaStates ==
    { RendererState(t, a, c, n, title) :
        t \in TransportStates, a \in TransportActions, c \in MediaClasses,
        n \in 1..MaxTracks, title \in BOOLEAN }

ZonePlaying == RendererState("PLAYING", {"Play", "Pause", "Next"}, MusicTrack, 1, TRUE)
ZoneRenderer ==
    [VirtualRenderer("Z1", <<"P1", "P2">>) EXCEPT
        !.power = "AUTOMATIC_STANDBY", !.rendererState = ZonePlaying]

InitSnapshot ==
    /\ \E state \in MediaStates :
           mediaRenderers =
               << [PhysicalRenderer("P1", "R1", Name_Bad, Name_Bad, "ACTIVE")
                       EXCEPT !.rendererState = state],
                  PhysicalRenderer("P2", "R2", Name_bade, Name_bade, "ACTIVE") >>
    /\ mediaRenderersVirtual = <<>>
    /\ zoneConfig = <<>>
    /\ managersUp = TRUE
    /\ _rooms = _refreshRoomRegistry(<<>>)
    /\ isReady = TRUE
    /\ availableRooms = _broadcastRoomStates(_rooms, isReady, mediaRenderers)
    /\ lastZones = CombinedState(<<>>)
    /\ trace = <<>>
    /\ handedOut = NothingHeld
    /\ requests = NoRequests
    /\ integration = IntegrationSettled
    /\ cmd = NoCommand

SnapshotTopologies ==
    { <<>>, << ZoneDescriptor("Z1", TRUE, <<"R1", "R2">>) >> }

NextSnapshot ==
    \/ MediaRendererVirtualAdded(ZoneRenderer)
    \/ MediaRendererVirtualRemoved("Z1")
    \/ MediaRendererRemoved("P1")
    \/ \E ready \in BOOLEAN : SystemReady(ready)
    \/ \E c \in SnapshotTopologies : CombinedZoneStateChanged(CombinedState(c))
    \/ \E p \in PowerStates : RendererStateChanged("P1", p)
    \/ RendererStateChanged("P2", "ACTIVE")

SpecSnapshot == InitSnapshot /\ [][NextSnapshot]_vars

\* A listener has published: the list on offer is the one of this step
Published ==
    \/ CombinedZoneStateChanged(lastZones')
    \/ \E u \in PhysIds, p \in PowerStates : RendererStateChanged(u, p)

\* The endpoint a published entry is read from, given the collections
Source(entry, renderers, virtuals) ==
    IF entry.zoneUdn # None /\ MapHas(virtuals, entry.zoneUdn) THEN "virtual"
    ELSE IF MapHas(renderers, entry.rendererUdn) THEN "physical"
    ELSE "none"

SourceState(entry, renderers, virtuals) ==
    IF Source(entry, renderers, virtuals) = "virtual"
    THEN MapGet(virtuals, entry.zoneUdn).rendererState
    ELSE MapGet(renderers, entry.rendererUdn).rendererState

IsRadioClass(c) ==
    \E i \in 1..Len(c) : c[i] \in {"audioBroadcast", "radio"}

\* The entries of a list whose snapshot has been read from an endpoint
ReadEntries(list) == { j \in 1..Len(list) : ~list[j].nowPlaying.empty }

(***************************************************************************)
(* Radio content (C22)                                                     *)
(***************************************************************************)
\* C22: in every published snapshot that is read from an endpoint playing
\* radio content (a class with the segment audioBroadcast or radio),
\* canPlayNext is true exactly if the declared transport actions contain
\* Next and the transport is not loading, and canPlayPrev likewise for
\* Previous: nothing is inferred from the number of tracks or from a
\* container class.
C22_RadioNeverInferred ==
    [][ Published =>
          \A j \in ReadEntries(availableRooms') :
              LET e == availableRooms'[j]
                  state == SourceState(e, mediaRenderers', mediaRenderersVirtual')
                  loading == state.TransportState = "TRANSITIONING"
              IN IsRadioClass(state.classString) =>
                    /\ e.nowPlaying.canPlayNext
                          = ("Next" \in state.CurrentTransportActions /\ ~loading)
                    /\ e.nowPlaying.canPlayPrev
                          = ("Previous" \in state.CurrentTransportActions /\ ~loading)
      ]_vars

\* P1 plays a radio container of two tracks with a title, declares Next but
\* not Previous and is not loading; the listeners have published the room
\* after a topology event and a power change: Next is offered, Previous is
\* not.
C22_Witness ==
    /\ trace # <<>>
    /\ MapHas(mediaRenderers, "P1")
    /\ LET state == MapGet(mediaRenderers, "P1").rendererState
       IN /\ state.classString = RadioContainer
          /\ state.NumberOfTracks = 2
          /\ state.track
          /\ state.TransportState = "PLAYING"
          /\ state.CurrentTransportActions = {"Play", "Next"}
    /\ \E j \in ReadEntries(availableRooms) :
           /\ availableRooms[j].rendererUdn = "P1"
           /\ availableRooms[j].zoneUdn = None
           /\ availableRooms[j].nowPlaying.powerState = "MANUAL_STANDBY"
           /\ availableRooms[j].nowPlaying.canPlayNext
           /\ ~availableRooms[j].nowPlaying.canPlayPrev

EmptySnapshot ==
    [empty |-> TRUE, isPlaying |-> FALSE, isLoading |-> FALSE,
     canPlayPause |-> FALSE, canPlayNext |-> FALSE, canPlayPrev |-> FALSE,
     powerState |-> "STANDBY"]

\* C24: every published snapshot is the fixed empty one (nothing playing, no
\* action, power state STANDBY) when the system is not ready; otherwise it
\* has the playback fields of the zone's virtual renderer if the room
\* carries a zone id and that renderer exists, else those of the room's
\* physical renderer if that exists, else it is the empty one again.
C24_EndpointOfSnapshot ==
    [][ Published =>
          \A j \in 1..Len(availableRooms') :
              LET e == availableRooms'[j]
                  from == Source(e, mediaRenderers', mediaRenderersVirtual')
              IN IF ~isReady' \/ from = "none"
                 THEN e.nowPlaying = EmptySnapshot
                 ELSE e.nowPlaying =
                        NowPlaying(IF from = "virtual"
                                   THEN MapGet(mediaRenderersVirtual', e.zoneUdn).rendererState
                                   ELSE MapGet(mediaRenderers', e.rendererUdn).rendererState,
                                   e.nowPlaying.powerState)
      ]_vars

\* The room of P1 is in the group Z1, whose virtual renderer exists and
\* plays, while P1 is loading: the published snapshot is the playing one;
\* the room of P2, whose zone id the same event has set, is published too.
C24_Witness ==
    /\ isReady
    /\ MapHas(mediaRenderers, "P1")
    /\ MapGet(mediaRenderers, "P1").rendererState.TransportState = "TRANSITIONING"
    /\ MapGet(mediaRenderers, "P1").rendererState.CurrentTransportActions = {}
    /\ MapHas(mediaRenderersVirtual, "Z1")
    /\ Len(availableRooms) = 2
    /\ \A j \in 1..Len(availableRooms) :
           /\ availableRooms[j].zoneUdn = "Z1"
           /\ availableRooms[j].nowPlaying = NowPlaying(ZonePlaying, "ACTIVE")

(***************************************************************************)
(* Loading (C25)                                                           *)
(***************************************************************************)
\* C25: in every published snapshot read from an endpoint whose transport
\* state is TRANSITIONING, canPlayNext and canPlayPrev are both false and
\* isLoading is true, whatever the transport actions, the class and the
\* number of tracks.
C25_LoadingForcesFalse ==
    [][ Published =>
          \A j \in ReadEntries(availableRooms') :
              LET e == availableRooms'[j]
                  state == SourceState(e, mediaRenderers', mediaRenderersVirtual')
              IN state.TransportState = "TRANSITIONING" =>
                    /\ e.nowPlaying.isLoading
                    /\ ~e.nowPlaying.canPlayNext
                    /\ ~e.nowPlaying.canPlayPrev
      ]_vars

\* P1 is loading an album of two tracks and declares Next and Previous; its
\* room has been published after a power change, with neither offered.
C25_Witness ==
    /\ MapHas(mediaRenderers, "P1")
    /\ LET state == MapGet(mediaRenderers, "P1").rendererState
       IN /\ state.TransportState = "TRANSITIONING"
          /\ state.classString = MusicAlbum
          /\ state.NumberOfTracks = 2
          /\ state.CurrentTransportActions = {"Play", "Pause", "Next", "Previous"}
    /\ \E j \in ReadEntries(availableRooms) :
           /\ availableRooms[j].rendererUdn = "P1"
           /\ availableRooms[j].zoneUdn = None
           /\ availableRooms[j].nowPlaying.powerState = "MANUAL_STANDBY"
           /\ availableRooms[j].nowPlaying.isLoading
           /\ ~availableRooms[j].nowPlaying.canPlayNext
           /\ ~availableRooms[j].nowPlaying.canPlayPrev

(***************************************************************************)
(* Waking the members of a group (C26): the virtual renderer of Z1 with    *)
(* the members P1 and P2 exists, both change their power state at any      *)
(* time, and the clients send play and the load commands.                  *)
(***************************************************************************)
InitWake ==
    /\ mediaRenderers = << PhysicalRenderer("P1", "R1", Name_Bad, Name_Bad, "ACTIVE"),
                           PhysicalRenderer("P2", "R2", Name_bade, Name_bade, "ACTIVE") >>
    /\ mediaRenderersVirtual = << VirtualRenderer("Z1", <<"P1", "P2">>) >>
    /\ zoneConfig = <<>>
    /\ managersUp = TRUE
    /\ _rooms = _refreshRoomRegistry(<<>>)
    /\ isReady = TRUE
    /\ availableRooms = _broadcastRoomStates(_rooms, isReady, mediaRenderers)
    /\ lastZones = CombinedState(<<>>)
    /\ trace = <<>>
    /\ handedOut = NothingHeld
    /\ requests = NoRequests
    /\ integration = IntegrationSettled
    /\ cmd = NoCommand

WakeIdentifiers == { UdnIdentifier("R1"), UdnIdentifier("R2") }

NextWake ==
    \/ \E u \in PhysIds, p \in PowerStates : RendererStateChanged(u, p)
    \/ \E identifier \in WakeIdentifiers : PlaybackCommand("play", identifier)
    \/ \E op \in LoadCommands, identifier \in WakeIdentifiers :
           LoadCommand(op, identifier)
    \/ WakeReturns
    \/ CommandSettled

SpecWake == InitWake /\ [][NextWake]_vars

\* The members of renderer from index from on up to index to that are in
\* standby now
Asleep(renderer, from, to) ==
    { m \in from..to : InStandby(renderer.members[m]) }

\* C26: a play or load command whose renderer is a virtual one goes through
\* the members in their order: at its start, and whenever a wake call has
\* returned or failed, it issues leaveStandby on the physical renderer of
\* the next member that is in standby, having skipped only members that are
\* not; when no member is left it makes the call of the command on the
\* virtual renderer, and the outcome of the command is the outcome of that
\* call alone.
C26_WakesEveryMember ==
    [][ ( /\ cmd' # cmd
          /\ cmd'.renderer.kind = "virtual"
          /\ cmd'.pc \in {"wake", "done"} ) =>
          LET r == cmd'.renderer
              from == IF cmd.pc = "wake" THEN cmd.k + 1 ELSE 1
              last == cmd'.calls[Len(cmd'.calls)]
          IN /\ cmd'.calls # <<>>
             /\ cmd'.pc = "wake" =>
                   /\ cmd'.k \in from..Len(r.members)
                   /\ InStandby(r.members[cmd'.k])
                   /\ Asleep(r, from, cmd'.k - 1) = {}
                   /\ last = Call("leaveStandby", "physical", r.members[cmd'.k],
                                  "pending")
             /\ cmd'.pc = "done" =>
                   /\ Asleep(r, from, Len(r.members)) = {}
                   /\ last.method = cmd'.op
                   /\ last.kind = "virtual" /\ last.udn = r.udn
                   /\ cmd'.result = IF last.outcome = "ok" THEN "resolved"
                                     ELSE "rejected"
      ]_vars

\* A play for a room of the group Z1 has been resolved although the wake
\* call to P1 failed: P2 has been woken after it, and then the virtual
\* renderer has been called.
C26_Witness ==
    /\ cmd.pc = "done"
    /\ cmd.op = "play"
    /\ cmd.result = "resolved"
    /\ cmd.calls = << Call("leaveStandby", "physical", "P1", "failed"),
                      Call("leaveStandby", "physical", "P2", "ok"),
                      Call("play", "virtual", "Z1", "ok") >>

(***************************************************************************)
(* enterStandby and playSystemSound, and all commands together (C27)       *)
(***************************************************************************)
\* An enterStandby that calls the renderer _getRendererForRoom gives
StartStandby_resolved(identifier) ==
    LET room == FoundRoom(identifier)
        c == [NoCommand EXCEPT !.op = "enterStandby", !.room = room,
                               !.renderer = _getRendererForRoom(room)]
    IN IF ~room.found THEN ReturnsNothing(c)
       ELSE IF c.renderer = NoRenderer
       THEN [c EXCEPT !.pc = "done", !.logged = TRUE, !.result = "resolved"]
       ELSE [c EXCEPT !.pc = "standby",
                      !.calls = <<Call("enterManualStandby", c.renderer.kind,
                                       c.renderer.udn, "pending")>>]

\* enterStandby up to its first await: the physical renderer of the room
StartStandby(identifier) ==
    LET room == FoundRoom(identifier)
        c == [NoCommand EXCEPT !.op = "enterStandby", !.room = room]
    IN IF ~room.found THEN ReturnsNothing(c)
       ELSE IF ~managersUp THEN [c EXCEPT !.pc = "done", !.result = "rejected"]
       ELSE IF ~MapHas(mediaRenderers, room.rendererUdn)
       THEN [c EXCEPT !.pc = "done", !.logged = TRUE, !.result = "resolved"]
       ELSE [c EXCEPT !.pc = "standby",
                      !.renderer = Physical(MapGet(mediaRenderers, room.rendererUdn)),
                      !.calls = <<Call("enterManualStandby", "physical",
                                       room.rendererUdn, "pending")>>]

\* A client sends enterStandby for identifier.
StandbyCommand(identifier) ==
    /\ cmd.pc = "idle"
    /\ cmd' = StartStandby(identifier)
    /\ UNCHANGED <<envVars, progVars, obsVars>>

\* enterManualStandby has returned (the method waits 500 ms next) or thrown
\* (the catch logs and re-throws).
StandbyReturns ==
    /\ cmd.pc = "standby"
    /\ \E ok \in BOOLEAN :
           cmd' = IF ok THEN [Returned(cmd, ok) EXCEPT !.pc = "settle"]
                  ELSE [Returned(cmd, ok) EXCEPT !.pc = "done", !.result = "rejected"]
    /\ UNCHANGED <<envVars, progVars, obsVars>>

\* An enterStandby that ends with a refresh of the registry
StandbyPublish_refresh ==
    /\ cmd.pc = "settle"
    /\ cmd' = [cmd EXCEPT !.pc = "done", !.result = "resolved"]
    /\ _rooms' = _refreshRoomRegistry(_rooms)
    /\ availableRooms' = _broadcastRoomStates(_refreshRoomRegistry(_rooms),
                                              isReady, mediaRenderers)
    /\ handedOut' = Reassigned(handedOut,
                              _broadcastRoomStates(_refreshRoomRegistry(_rooms),
                                                   isReady, mediaRenderers))
    /\ UNCHANGED <<envVars, requests, integration, isReady, lastZones, trace>>

\* The timer of _delay(500) has fired: enterStandby calls
\* _broadcastRoomStates and returns.
StandbyPublish ==
    /\ cmd.pc = "settle"
    /\ cmd' = [cmd EXCEPT !.pc = "done", !.result = "resolved"]
    /\ availableRooms' = _broadcastRoomStates(_rooms, isReady, mediaRenderers)
    /\ handedOut' = Reassigned(handedOut,
                              _broadcastRoomStates(_rooms, isReady, mediaRenderers))
    /\ UNCHANGED <<envVars, requests, integration, _rooms, isReady, lastZones, trace>>

\* playSystemSound up to its first await: the physical renderer of the
\* room, woken first
StartSystemSound(identifier, ok) ==
    LET room == FoundRoom(identifier)
        c == [NoCommand EXCEPT !.op = "playSystemSound", !.room = room]
    IN IF ~room.found THEN ReturnsNothing(c)
       ELSE IF managersUp /\ MapHas(mediaRenderers, room.rendererUdn)
       THEN WakeThenCall([c EXCEPT !.renderer =
                              Physical(MapGet(mediaRenderers, room.rendererUdn))],
                         1, ok)
       ELSE [c EXCEPT !.pc = "done", !.logged = TRUE, !.result = "resolved"]

\* A client sends playSystemSound for identifier.
SystemSoundCommand(identifier) ==
    /\ cmd.pc = "idle"
    /\ \E ok \in BOOLEAN : cmd' = StartSystemSound(identifier, ok)
    /\ UNCHANGED <<envVars, progVars, obsVars>>

FrameIdentifiers ==
    { UdnIdentifier("R1"), UdnIdentifier("Z1"), TextIdentifier(<<"a", "d", "e">>) }

\* The listeners and the library while the commands run
FrameLibrary ==
    \/ MediaRendererVirtualAdded(VirtualRenderer("Z1", <<"P1", "P2">>))
    \/ MediaRendererVirtualRemoved("Z1")
    \/ \E c \in SnapshotTopologies : CombinedZoneStateChanged(CombinedState(c))
    \/ \E u \in PhysIds, p \in PowerStates : RendererStateChanged(u, p)
    \/ SystemReady(TRUE)
    \/ SystemHostLost

FrameCommands ==
    \/ \E op \in PlaybackCommands, identifier \in FrameIdentifiers :
           PlaybackCommand(op, identifier)
    \/ \E op \in LoadCommands, identifier \in FrameIdentifiers :
           LoadCommand(op, identifier)
    \/ \E op \in TransportCommands, identifier \in FrameIdentifiers :
           TransportCommand(op, identifier)
    \/ \E identifier \in FrameIdentifiers : SystemSoundCommand(identifier)
    \/ \E identifier \in FrameIdentifiers : StandbyCommand(identifier)
    \/ ConnectReturns
    \/ DelayElapsed
    \/ WakeReturns
    \/ StopReturns
    \/ StandbyReturns
    \/ StandbyPublish
    \/ UnhandledRejection
    \/ CommandSettled

NextFrame == cmd.pc # "terminated" /\ (FrameLibrary \/ FrameCommands)

SpecFrame == InitCmd /\ [][NextFrame]_vars

\* C27: no step of a command (play, pause, setVolume, the load commands,
\* stop, next, prev, setMute, playSystemSound, enterStandby, with the
\* renderer resolution and the poll loop they contain) changes the
\* registry; a step that changes it is one of the listeners, and the new
\* registry is the result of _resetState, of _refreshRoomRegistry, or of
\* _refreshRoomRegistry followed by _updateZoneMappings.
C27_CommandsLeaveRegistry ==
    [][ /\ cmd' # cmd => _rooms' = _rooms
        /\ _rooms' # _rooms =>
              /\ cmd' = cmd
              /\ \/ _rooms' = _resetState.rooms
                 \/ _rooms' = _refreshRoomRegistry(_rooms)
                 \/ _rooms' = _updateZoneMappings(_refreshRoomRegistry(_rooms),
                                                  lastZones')
      ]_vars

\* enterStandby has waited for enterManualStandby and for the delay and has
\* published the list, while the registry holds the two rooms in the group
\* Z1 as the last topology event left them.
C27_Witness ==
    /\ cmd.op = "enterStandby"
    /\ cmd.pc = "done"
    /\ cmd.result = "resolved"
    /\ cmd.calls = <<Call("enterManualStandby", "physical", "P1", "ok")>>
    /\ Len(_rooms) = 2
    /\ \A i \in 1..Len(_rooms) : _rooms[i].zoneUdn = "Z1"
    /\ Len(availableRooms) = 2

(***************************************************************************)
(* When rooms are created (C28)                                            *)
(***************************************************************************)
\* The renderers whose room this step has inserted into the registry
Inserted == RegisteredIds(_rooms') \ RegisteredIds(_rooms)

\* C28 as stated: a room is inserted only by a step that leaves the system
\* ready; none is inserted before the first systemReady(true), after
\* systemReady(false) or after the loss of the host.
C28_NoRoomWhileNotReady ==
    [][ Inserted # {} => isReady' ]_vars

\* C28, amended: a room is inserted only by the refresh of the registry,
\* which the listener of systemReady runs when the flag is true and the
\* listener of a topology event runs always, also while the system is not
\* ready; the rooms inserted are those of the renderers the deviceManager
\* holds and the registry did not.  No room is inserted by
\* systemReady(false) or by the loss of the host.
C28_RoomsInsertedByRefresh ==
    [][ Inserted # {} =>
          /\ managersUp
          /\ Inserted = { mediaRenderers[i].udn : i \in 1..Len(mediaRenderers) }
                            \ RegisteredIds(_rooms)
          /\ \/ CombinedZoneStateChanged(lastZones')
             \/ isReady' /\ SystemReady(TRUE)
      ]_vars

\* The system is not ready (the host was lost, or systemReady(false) came,
\* or it never was) and the registry holds a room that the last topology
\* event has put into a group.
C28_Witness ==
    /\ ~isReady
    /\ trace # <<>> /\ trace[Len(trace)] = "send"
    /\ \E i \in 1..Len(_rooms) : _rooms[i].zoneUdn # None

(***************************************************************************)
(* No handle outlives its command (C29)                                    *)
(***************************************************************************)
EndpointIds == ZoneIds \cup PhysIds
RoomIds == {"R1", "R2"}

\* next or setMute, which call the renderer they resolve without an await
\* in between, has run for room roomUdn and has made its call.
Called(roomUdn) ==
    /\ cmd.pc = "done"
    /\ cmd.op \in {"next", "setMute"}
    /\ cmd.room.found
    /\ cmd.room.roomUdn = roomUdn
    /\ cmd.calls # <<>>

\* The priority chain yields, for room and the collections as they are, the
\* endpoint with id udn.
Yields(room, udn) ==
    \E kind \in {"virtual", "physical"} :
        Chain(room, [kind |-> kind, udn |-> udn, members |-> <<>>])

\* C29: once a command for a room has called the endpoint h, every later
\* command for that room that runs when the chain no longer yields h for
\* the collections of the library calls the endpoint the chain yields
\* then, and not h; a command for which the chain yields nothing makes no
\* call.
C29_NoHandleAcrossCalls ==
    \A h \in EndpointIds, roomUdn \in RoomIds :
        []( (Called(roomUdn) /\ LastCall(cmd).udn = h) =>
              []( /\ (Called(roomUdn) /\ ~Yields(cmd.room, h)) =>
                        /\ LastCall(cmd).udn # h
                        /\ Yields(cmd.room, LastCall(cmd).udn)
                  /\ ( /\ cmd.pc = "done"
                       /\ cmd.op \in {"next", "setMute"}
                       /\ Chain(cmd.room, NoRenderer) ) => cmd.calls = <<>> ) )

\* A command for R1 has called the physical renderer P1 although the room
\* is still published with the zone id Z1, under which an earlier command
\* would have been resolved: the virtual renderer of Z1 is gone.
C29_Witness ==
    /\ Called("R1")
    /\ cmd.room.zoneUdn = "Z1"
    /\ ~MapHas(mediaRenderersVirtual, "Z1")
    /\ LastCall(cmd) = Call(cmd.op, "physical", "P1", "ok")

(***************************************************************************)
(* Published lists (C30): a caller reads getState().availableRooms and     *)
(* keeps the array while the listeners and enterStandby go on publishing.  *)
(***************************************************************************)
\* A caller takes the array that _state.availableRooms refers to; the
\* zoneMembers arrays of its entries are those of the registry's records.
GetState ==
    /\ cmd.pc # "done"
    /\ handedOut' = [taken |-> TRUE, list |-> availableRooms,
                     current |-> TRUE, shared |-> TRUE]
    /\ UNCHANGED <<envVars, progVars, requests,
                 integration, lastZones, trace, cmd>>

NextPublished ==
    \/ GetState
    \/ \E ready \in BOOLEAN : SystemReady(ready)
    \/ SystemHostLost
    \/ \E c \in SnapshotTopologies : CombinedZoneStateChanged(CombinedState(c))
    \/ \E p \in PowerStates : RendererStateChanged("P1", p)
    \/ StandbyCommand(UdnIdentifier("R1"))
    \/ StandbyReturns
    \/ StandbyPublish
    \/ CommandSettled

SpecPublished == InitCmd /\ [][NextPublished]_vars

\* C30: the array a caller has read from getState().availableRooms keeps
\* the entries it had, with their zone fields, member lists and playback
\* snapshots, through every later event and command, until the caller
\* reads again: the listeners and enterStandby publish new arrays, and the
\* reconciler gives the records new member lists.
C30_PublishedListsUnchanged ==
    [][ handedOut.taken => (handedOut'.list = handedOut.list \/ GetState) ]_vars

\* The caller holds the list read while R1 was ungrouped and awake; since
\* then a topology event has put R1 into the group Z1 and P1 has gone to
\* standby, as the list on offer shows. The held list shows neither.
C30_Witness ==
    /\ handedOut.taken
    /\ ~handedOut.current /\ ~handedOut.shared
    /\ Len(handedOut.list) = 2 /\ Len(availableRooms) = 2
    /\ \A j \in 1..2 :
           /\ handedOut.list[j].rendererUdn = availableRooms[j].rendererUdn
           /\ handedOut.list[j].zoneMembers = <<handedOut.list[j].roomUdn>>
           /\ handedOut.list[j].nowPlaying.powerState = "ACTIVE"
           /\ availableRooms[j].zoneMembers = <<"R1", "R2">>
    /\ \E j \in 1..2 : availableRooms[j].nowPlaying.powerState = "MANUAL_STANDBY"


(***************************************************************************)
(* Repeated commands (C31): setVolume and setMute make their call before   *)
(* their first await, so a command is received, resolved and issued in one *)
(* step, while the calls of earlier commands are still on their way.       *)
(***************************************************************************)
MaxCommands == 3
Volumes     == {10, 20}
VolumeCommands == {"setVolume", "setMute"}
VolumeValues(op) == IF op = "setVolume" THEN Volumes ELSE BOOLEAN

\* The call of renderer.setVolume(value) or renderer.setMute(value)
VolumeCall(op, renderer, value) ==
    [method |-> op, kind |-> renderer.kind, udn |-> renderer.udn,
     value |-> value]

\* A helper that drops a call which repeats the call before it
Issue_deduplicated(r, op, identifier, value, renderer) ==
    [r EXCEPT !.received = Append(@, [op |-> op, identifier |-> identifier,
                                      value |-> value]),
              !.issued = IF renderer = NoRenderer THEN @
                         ELSE IF /\ @ # <<>>
                                 /\ @[Len(@)].method = op
                                 /\ @[Len(@)].udn = renderer.udn
                                 /\ @[Len(@)].value = value
                              THEN @
                         ELSE Append(@, VolumeCall(op, renderer, value))]

\* setVolume / setMute: if (renderer) return renderer.setVolume(volume)
Issue(r, op, identifier, value, renderer) ==
    [r EXCEPT !.received = Append(@, [op |-> op, identifier |-> identifier,
                                      value |-> value]),
              !.issued = IF renderer = NoRenderer THEN @
                         ELSE Append(@, VolumeCall(op, renderer, value))]

\* A client sends setVolume or setMute with value for identifier, whatever
\* the other commands are waiting for.
VolumeCommand(op, identifier, value) ==
    /\ cmd.pc \notin {"done", "terminated"}
    /\ Len(requests.received) < MaxCommands
    /\ requests' = Issue(requests, op, identifier, value,
                         _getRendererForRoom(FoundRoom(identifier)))
    /\ UNCHANGED <<envVars, progVars, lastZones, trace, handedOut,
                   integration, cmd>>

\* One of the calls on its way returns or throws, and the handler that
\* awaits it ends.
VolumeReturns ==
    /\ cmd.pc \notin {"done", "terminated"}
    /\ requests.returned < Len(requests.issued)
    /\ requests' = [requests EXCEPT !.returned = @ + 1]
    /\ UNCHANGED <<envVars, progVars, lastZones, trace, handedOut,
                   integration, cmd>>

VolumeIdentifiers == {UdnIdentifier("R1")}

NextVolume ==
    \/ \E op \in VolumeCommands, identifier \in VolumeIdentifiers :
           \E value \in VolumeValues(op) : VolumeCommand(op, identifier, value)
    \/ VolumeReturns
    \/ \E v \in {ZoneRenderer} : MediaRendererVirtualAdded(v)
    \/ MediaRendererVirtualRemoved("Z1")
    \/ SystemHostLost
    \/ SystemReady(TRUE)
    \/ \E c \in SnapshotTopologies : CombinedZoneStateChanged(CombinedState(c))

SpecVolume == InitCmd /\ [][NextVolume]_vars

\* C31: every setVolume and setMute received makes one call of its own,
\* with its own value, on the renderer _getRendererForRoom gives for its
\* room when it is received, after the calls of the commands received
\* before it (no call when no renderer is resolved); no other step adds,
\* drops, replaces or reorders a call.
C31_OneCallPerCommand ==
    [][ IF Len(requests'.received) = Len(requests.received) + 1
        THEN LET e == requests'.received[Len(requests'.received)]
                 renderer == _getRendererForRoom(FoundRoom(e.identifier))
             IN /\ SubSeq(requests'.received, 1, Len(requests.received))
                      = requests.received
                /\ requests'.issued =
                      IF renderer = NoRenderer THEN requests.issued
                      ELSE Append(requests.issued,
                                  VolumeCall(e.op, renderer, e.value))
        ELSE /\ requests'.received = requests.received
             /\ requests'.issued = requests.issued ]_vars

\* Three setVolume commands for R1, two of them with the same value, have
\* made three calls in that order: the first on P1, the others on the
\* virtual renderer of the zone R1 has joined meanwhile; none has returned.
C31_Witness ==
    /\ Len(requests.received) = 3
    /\ \A j \in 1..3 : /\ requests.received[j].op = "setVolume"
                       /\ requests.received[j].identifier = UdnIdentifier("R1")
    /\ requests.issued = << [method |-> "setVolume", kind |-> "physical",
                             udn |-> "P1", value |-> 20],
                            [method |-> "setVolume", kind |-> "virtual",
                             udn |-> "Z1", value |-> 10],
                            [method |-> "setVolume", kind |-> "virtual",
                             udn |-> "Z1", value |-> 10] >>
    /\ requests.returned = 0


(***************************************************************************)
(* IntegrationManager (C32, C33): index.js constructs it and awaits        *)
(* ensureIntegrationInstalled() before anything else.                      *)
(*   options       what loadOptions returned to the constructor           *)
(*   homeassistant /homeassistant exists                                   *)
(*   bundledDir    /integration exists                                     *)
(*   bundled       the version of /integration/manifest.json, or none      *)
(*   target        the target directory: "absent", "empty" (no             *)
(*                 manifest.json) or "manifest"                            *)
(*   installed     the version of the target's manifest.json, or none      *)
(*   token         SUPERVISOR_TOKEN is set                                 *)
(*   copied        installOrUpdateIntegration has replaced the target      *)
(*   notified      notifyRestartRequired has been called                   *)
(*   posted        the notification request has been sent                  *)
(* A version is the list of numbers that split('.').map(Number) makes of   *)
(* its text.                                                               *)
(***************************************************************************)
MaxParts == 2
MaxPart  == 1
NoVersion == <<>>
Versions  == UNION { [1..n -> 0..MaxPart] : n \in 1..MaxParts }

\* /data/options.json, if there is one
NoOptionsFile == [present |-> FALSE, ENABLE_AUTO_INSTALL |-> "unset",
                  DEVELOPER_MODE |-> "unset"]
OptionsFiles ==
    {NoOptionsFile} \cup
    [present : {TRUE}, ENABLE_AUTO_INSTALL : {"true", "false", "unset"},
     DEVELOPER_MODE : {"true", "false"}]

loadOptions(file) ==
    IF file.present
    THEN [ENABLE_AUTO_INSTALL |-> file.ENABLE_AUTO_INSTALL,
          DEVELOPER_MODE |-> file.DEVELOPER_MODE]
    ELSE [ENABLE_AUTO_INSTALL |-> "true", DEVELOPER_MODE |-> "unset"]

\* partsA[i] || 0
PartOf(parts, i) == IF i <= Len(parts) THEN parts[i] ELSE 0

Max(m, n) == IF m >= n THEN m ELSE n

\* A comparison of the parts both versions have
compareVersions_unpadded(a, b) ==
    LET D == { i \in 1..Len(a) : i <= Len(b) /\ a[i] # b[i] }
    IN IF D = {} THEN 0
       ELSE IF a[FirstIndex(D)] < b[FirstIndex(D)] THEN -1 ELSE 1

compareVersions(a, b) ==
    LET D == { i \in 1..Max(Len(a), Len(b)) : PartOf(a, i) # PartOf(b, i) }
    IN IF D = {} THEN 0
       ELSE IF PartOf(a, FirstIndex(D)) < PartOf(b, FirstIndex(D)) THEN -1
       ELSE 1

checkIntegrationInstalled(i) == i.target = "manifest"

\* installOrUpdateIntegration once it has decided to install: mkdir, rm of
\* the target, copyDirectory; it returns true
Install(i) ==
    [i EXCEPT !.target = "manifest", !.installed = i.bundled, !.copied = TRUE]

installOrUpdateIntegration(i) ==
    IF i.bundled = NoVersion THEN i
    ELSE IF checkIntegrationInstalled(i) /\ i.installed # NoVersion
         THEN IF compareVersions(i.installed, i.bundled) >= 0 THEN i
              ELSE Install(i)
    ELSE Install(i)

\* notifyRestartRequired up to its await
notifyRestartRequired(i) ==
    IF i.token THEN [i EXCEPT !.pc = "notify", !.notified = TRUE]
    ELSE [i EXCEPT !.pc = "done", !.notified = TRUE]

\* An ensureIntegrationInstalled that notifies whatever was done
ensureIntegrationInstalled_notifying(i) ==
    IF i.options.ENABLE_AUTO_INSTALL = "false" THEN [i EXCEPT !.pc = "done"]
    ELSE IF ~i.homeassistant THEN [i EXCEPT !.pc = "done"]
    ELSE IF ~i.bundledDir THEN [i EXCEPT !.pc = "done"]
    ELSE notifyRestartRequired(installOrUpdateIntegration(i))

ensureIntegrationInstalled(i) ==
    IF i.options.ENABLE_AUTO_INSTALL = "false" THEN [i EXCEPT !.pc = "done"]
    ELSE IF ~i.homeassistant THEN [i EXCEPT !.pc = "done"]
    ELSE IF ~i.bundledDir THEN [i EXCEPT !.pc = "done"]
    ELSE LET changed == installOrUpdateIntegration(i)
         IN IF changed.copied THEN notifyRestartRequired(changed)
            ELSE [changed EXCEPT !.pc = "done"]

\* index.js: await integrationManager.ensureIntegrationInstalled()
EnsureIntegrationInstalled ==
    /\ integration.pc = "start"
    /\ integration' = ensureIntegrationInstalled(integration)
    /\ UNCHANGED <<envVars, progVars, lastZones, trace, handedOut, requests,
                   cmd>>

\* The request to the supervisor has been answered or has failed.
NotificationReturns ==
    /\ integration.pc = "notify"
    /\ integration' = [integration EXCEPT !.pc = "done", !.posted = TRUE]
    /\ UNCHANGED <<envVars, progVars, lastZones, trace, handedOut, requests,
                   cmd>>

\* The state after new IntegrationManager(), in every environment
InitInstall ==
    /\ mediaRenderers = <<>>
    /\ mediaRenderersVirtual = <<>>
    /\ zoneConfig = <<>>
    /\ managersUp = FALSE
    /\ _rooms = <<>>
    /\ isReady = FALSE
    /\ availableRooms = <<>>
    /\ lastZones = CombinedState(<<>>)
    /\ trace = <<>>
    /\ handedOut = NothingHeld
    /\ requests = NoRequests
    /\ cmd = NoCommand
    /\ \E file \in OptionsFiles, ha, dir, token \in BOOLEAN,
          bundled, installed \in Versions \cup {NoVersion},
          target \in {"absent", "empty", "manifest"} :
           /\ target # "manifest" => installed = NoVersion
           /\ ~dir => bundled = NoVersion
           /\ integration =
                 [pc |-> "start", options |-> loadOptions(file),
                  homeassistant |-> ha, bundledDir |-> dir,
                  bundled |-> bundled, target |-> target,
                  installed |-> installed, token |-> token,
                  copied |-> FALSE, notified |-> FALSE, posted |-> FALSE]

NextInstall ==
    \/ EnsureIntegrationInstalled
    \/ NotificationReturns

SpecInstall == InitInstall /\ [][NextInstall]_vars


\* The number a version stands for when each part is a digit
RECURSIVE VersionNumber(_, _)
VersionNumber(v, n) ==
    IF n = 0 THEN 0
    ELSE VersionNumber(v, n - 1) * (MaxPart + 1) + PartOf(v, n)
Older(a, b) ==
    VersionNumber(a, Max(Len(a), Len(b))) < VersionNumber(b, Max(Len(a), Len(b)))

\* Auto-install is not switched off, /homeassistant exists and the bundled
\* integration is there with its version
AutoInstalls(i) ==
    /\ i.options.ENABLE_AUTO_INSTALL # "false"
    /\ i.homeassistant /\ i.bundledDir /\ i.bundled # NoVersion
Untouched(i, j) == j.target = i.target /\ j.installed = i.installed

C33_DeveloperModeCopies ==
    ( /\ integration.pc = "done"
      /\ integration.options.DEVELOPER_MODE = "true"
      /\ AutoInstalls(integration) )
        => integration.copied


(***************************************************************************)
(* Which commands wake which renderers (C34)                               *)
(***************************************************************************)
WakingCommands == {"play", "playSystemSound"} \cup LoadCommands

\* The physical renderers _wakeRenderer goes through for renderer, in order
WakeOrder(renderer) ==
    IF renderer.kind = "physical" THEN <<renderer.udn>> ELSE renderer.members

\* C34: a command calls leaveStandby only if it is play, a load command or
\* playSystemSound, only on the physical renderer it holds or on a member
\* of the virtual renderer it holds, only if that renderer reports a
\* standby power state when the call is made, and only once per renderer;
\* and when such a command makes a call, every renderer it has passed over
\* on the way reported no standby state. pause, stop, next, prev, setVolume
\* and setMute never make the call.
C34_WakesOnlyAsleep ==
    [][ Len(cmd'.calls) > Len(cmd.calls) =>
        LET new  == cmd'.calls[Len(cmd'.calls)]
            w    == WakeOrder(cmd'.renderer)
            from == IF cmd.pc = "wake" THEN cmd.k + 1 ELSE 1
        IN /\ new.method = "leaveStandby" =>
                 /\ cmd'.op \in WakingCommands
                 /\ new.kind = "physical"
                 /\ cmd'.k \in from..Len(w) /\ new.udn = w[cmd'.k]
                 /\ InStandby(new.udn)
                 /\ \A m \in from..(cmd'.k - 1) : ~InStandby(w[m])
                 /\ \A j \in 1..Len(cmd.calls) :
                        ~( cmd.calls[j].method = "leaveStandby"
                           /\ cmd.calls[j].udn = new.udn )
           /\ (cmd'.op \in WakingCommands /\ new.method = cmd'.op) =>
                 \A m \in from..Len(w) : ~InStandby(w[m])
      ]_vars

\* playSystemSound for the room R1, grouped in Z1, has woken P1, which was
\* in standby, with one call and has then played the sound on it; P2, in
\* standby as well, has not been called.
C34_Witness ==
    /\ cmd.pc = "done"
    /\ cmd.op = "playSystemSound"
    /\ cmd.room.zoneUdn = "Z1"
    /\ InStandby("P2")
    /\ cmd.calls = << Call("leaveStandby", "physical", "P1", "ok"),
                      Call("playSystemSound", "physical", "P1", "ok") >>


(***************************************************************************)
(* The renderer a command calls after it has waited (C35)                  *)
(***************************************************************************)
\* What _getRendererForRoom gives now for the room the command is for
ResolvedNow(c) == _getRendererForRoom(FoundRoom(UdnIdentifier(c.room.roomUdn)))

\* C35: when play or a load command makes the call of its operation, it
\* makes it on the renderer that _getRendererForRoom gives for the room at
\* that moment, whatever events the listeners have handled while the
\* command waited for leaveStandby.
C35_CallsCurrentRenderer ==
    [][ ( /\ Len(cmd'.calls) > Len(cmd.calls)
          /\ cmd'.op \in {"play"} \cup LoadCommands
          /\ cmd'.calls[Len(cmd'.calls)].method = cmd'.op ) =>
        LET new == cmd'.calls[Len(cmd'.calls)]
        IN /\ ResolvedNow(cmd') # NoRenderer
           /\ new.kind = ResolvedNow(cmd').kind
           /\ new.udn = ResolvedNow(cmd').udn
      ]_vars


(***************************************************************************)
(* The published list and the registry (C36)                               *)
(***************************************************************************)
\* The fields a record of the registry and a published entry both have
RoomFields(r) ==
    [roomUdn |-> r.roomUdn, rendererUdn |-> r.rendererUdn, name |-> r.name,
     zoneUdn |-> r.zoneUdn, zoneName |-> r.zoneName,
     zoneMembers |-> r.zoneMembers]

\* C36: between the handlers, and so wherever a command is suspended, the
\* published list has one entry for each record of the registry and no
\* other, and the entry has the record's roomUdn, rendererUdn, name,
\* zoneUdn, zoneName and zoneMembers.
C36_PublishedIsRegistry ==
    /\ Len(availableRooms) = Len(_rooms)
    /\ \A i \in 1..Len(_rooms) :
           \E j \in 1..Len(availableRooms) :
               /\ RoomFields(availableRooms[j]) = RoomFields(_rooms[i])
               /\ \A k \in 1..Len(availableRooms) :
                      availableRooms[k].rendererUdn = _rooms[i].rendererUdn
                          => k = j

\* A load command waits for leaveStandby while the registry holds R1 and R2
\* in the group Z1, and the published list shows both in that group.
C36_Witness ==
    /\ cmd.pc = "wake"
    /\ cmd.op \in LoadCommands
    /\ Len(_rooms) = 2
    /\ \A i \in 1..Len(_rooms) :
           _rooms[i].zoneUdn = "Z1" /\ _rooms[i].zoneMembers = <<"R1", "R2">>
    /\ \A j \in 1..Len(availableRooms) : availableRooms[j].zoneUdn = "Z1"


(***************************************************************************)
(* Two renderers of one room (C37): the library lists every physical       *)
(* renderer, and the renderers of a room with several speakers give the    *)
(* same roomUdn.                                                           *)
(***************************************************************************)
SharedDevices ==
    { PhysicalRenderer("P1", "R1", Name_Bad, Name_Bad, "ACTIVE"),
      PhysicalRenderer("P2", "R1", Name_Bad, Name_Bad, "ACTIVE"),
      PhysicalRenderer("P3", "R2", Name_bade, Name_bade, "ACTIVE") }

SharedPayloads ==
    { CombinedState(<<>>),
      CombinedState(<< ZoneDescriptor("Z1", TRUE, <<"R1", "R2">>) >>),
      CombinedState(<< ZoneDescriptor("Z1", TRUE, <<"P2", "R2">>) >>),
      CombinedState(<< ZoneDescriptor("Z1", FALSE, <<"R1">>) >>) }

NextShared ==
    \/ ManagersCreated
    \/ \E d \in SharedDevices : MediaRendererAdded(d)
    \/ \E d \in SharedDevices : MediaRendererRemoved(d.udn)
    \/ \E ready \in BOOLEAN : SystemReady(ready)
    \/ SystemHostLost
    \/ \E data \in SharedPayloads : CombinedZoneStateChanged(data)

SpecShared == Init /\ [][NextShared]_vars

\* C37: when a topology event has been reconciled, every room of the
\* registry whose roomUdn or rendererUdn is in the member list of a
\* descriptor flagged as a group has a zoneUdn, also a room that shares its
\* roomUdn with another room; a room without zoneUdn is named by no such
\* descriptor.
C37_EveryNamedRoomGrouped ==
    [][ CombinedZoneStateChanged(lastZones') =>
        \A i \in 1..Len(_rooms') :
            ( \E j \in 1..Len(lastZones'.zones) :
                  NamedBy(_rooms'[i], lastZones'.zones[j]) )
                <=> _rooms'[i].zoneUdn # None ]_vars


(***************************************************************************)
(* A room among its zoneMembers (C38)                                      *)
(***************************************************************************)
Members(room) == { room.zoneMembers[k] : k \in 1..Len(room.zoneMembers) }

C39_NotReadyPublishesEmpty ==
    ~isReady =>
        \A j \in 1..Len(availableRooms) :
            /\ availableRooms[j].nowPlaying = EmptySnapshot
            /\ availableRooms[j].nowPlaying.powerState = "STANDBY"
            /\ ~availableRooms[j].nowPlaying.isPlaying


(***************************************************************************)
(* enterStandby and playSystemSound call the room's own renderer (C40)     *)
(***************************************************************************)
PhysicalCommands == {"enterStandby", "playSystemSound"}

\* C40: every call that enterStandby or playSystemSound makes, however the
\* room was addressed (by its id, by the id of its zone, by its name) and
\* whether or not it is grouped, goes to the physical renderer with the
\* rendererUdn of the room that findRoom gave, never to a virtual renderer
\* and never to another member of the group; enterStandby makes one call
\* at most.
C40_CallsTheRoomsRenderer ==
    [][ /\ \A identifier \in FrameIdentifiers :
               ( StandbyCommand(identifier) \/ SystemSoundCommand(identifier) )
                   => /\ cmd'.room = FoundRoom(identifier)
                      /\ \A k \in 1..Len(cmd'.calls) :
                             /\ cmd'.calls[k].kind = "physical"
                             /\ cmd'.calls[k].udn = FoundRoom(identifier).rendererUdn
        /\ ( cmd'.op \in PhysicalCommands /\ cmd' # cmd ) =>
               /\ cmd.op \in PhysicalCommands => cmd'.room = cmd.room
               /\ \A k \in 1..Len(cmd'.calls) :
                      /\ cmd'.calls[k].kind = "physical"
                      /\ cmd'.calls[k].udn = cmd'.room.rendererUdn
                      /\ cmd'.calls[k].method \in
                             IF cmd'.op = "enterStandby"
                             THEN {"enterManualStandby"}
                             ELSE {"leaveStandby", "playSystemSound"}
               /\ cmd'.op = "enterStandby" => Len(cmd'.calls) <= 1
      ]_vars

\* enterStandby for a room of the group Z1, whose virtual renderer exists,
\* has put P1 into standby with one call and has ended; P2, the other
\* member, is awake and has not been called.
C40_Witness ==
    /\ cmd.op = "enterStandby"
    /\ cmd.pc = "done"
    /\ cmd.room.zoneUdn = "Z1" /\ cmd.room.rendererUdn = "P1"
    /\ MapHas(mediaRenderersVirtual, "Z1")
    /\ ~InStandby("P2")
    /\ cmd.calls = <<Call("enterManualStandby", "physical", "P1", "ok")>>

====
